---- MODULE Spec2Model ----
(***************************************************************************)
(* Model of the admission-score collection pipeline:                       *)
(*   schools_crawler/*  (source adapters)  ->  cleaner.DataCleaner         *)
(*   ->  exporter.CSVExporter  ->  import_data (loader).                   *)
(*                                                                         *)
(* Text.  A Python str is a sequence of characters.  TLA+ strings are      *)
(* ASCII, so an ASCII character stands for itself ("6", "N", " ") and a    *)
(* Chinese character is written as a token, one token per character, the   *)
(* same character always the same token (a digit suffix tells homophones   *)
(* apart):  北京 = <<"bei","jing">>,  分 = "fen",  ： = "fw_colon",         *)
(* ； = "fw_semi",  （ ） = "fw_lparen" "fw_rparen",  【 】 = "fw_lbracket" *)
(* "fw_rbracket",  ， = "fw_comma",  、 = "fw_dun",  U+3000 = "fw_space".   *)
(* Every literal carries its source text in a comment.                     *)
(*                                                                         *)
(* Dict keys of an admission record (exporter.CSV_FIELDS):                 *)
(*   年份 "nianfen"        学校 "xuexiao"      _985 "_985"    _211 "_211"   *)
(*   双一流 "shuangyiliu"  科类 "kelei"        批次 "pici"    专业 "zhuanye"*)
(*   最低分 "zuidifen"     最低分排名 "zuidifenpaiming"                     *)
(*   全国统一招生代码 "zhaoshengdaima"  招生类型 "zhaoshengleixing"         *)
(*   生源地 "shengyuandi"                                                   *)
(*                                                                         *)
(* Values.  A Python value is a record [t, s, n, d]: t its type ("str",    *)
(* "int", "float", "none", and "nan" for pandas' missing value), s the     *)
(* characters of a str, n the integer (or the integer part of a float), d  *)
(* the first fractional digit of a float.                                  *)
(* A dict is a function from its keys to values; a key the dict lacks is   *)
(* not in its DOMAIN.  A list or tuple is [t |-> "list" or "tuple",        *)
(* items |-> the sequence of its elements].                                *)
(***************************************************************************)
EXTENDS Integers, Sequences, FiniteSets, TLC

\* ------------------------------------------------------------------ bounds
\* Longest free-form score / rank string fed to clean_score, clean_ranking.
MaxScoreLen == 3
\* Longest record list handed to clean_data.
MaxRecords == 3

\* ------------------------------------------------------- Python values
PyStr(s) == [t |-> "str", s |-> s, n |-> 0, d |-> 0]
PyInt(n) == [t |-> "int", s |-> <<>>, n |-> n, d |-> 0]
PyFloat(n, d) == [t |-> "float", s |-> <<>>, n |-> n, d |-> d]
PyNone == [t |-> "none", s |-> <<>>, n |-> 0, d |-> 0]

\* bool(v): '' , 0, 0.0 and None are false.
Truthy(v) ==
    CASE v.t = "str" -> v.s # <<>>
      [] v.t = "int" -> v.n # 0
      [] v.t = "float" -> ~(v.n = 0 /\ v.d = 0)
      [] OTHER -> FALSE

DigitChars == <<"0", "1", "2", "3", "4", "5", "6", "7", "8", "9">>
Digits == {DigitChars[i] : i \in 1..10}
\* str.isdigit of one character.
IsDigitCh(c) == c \in Digits
\* Characters str.strip() and \s treat as white space.
Whitespace == {" ", "fw_space"}

RECURSIVE IntToStr(_)
\* str(n) of a non-negative int.
IntToStr(n) ==
    IF n < 10 THEN <<DigitChars[n + 1]>>
    ELSE IntToStr(n \div 10) \o <<DigitChars[(n % 10) + 1]>>

\* str(v).
py_str(v) ==
    CASE v.t = "str" -> v.s
      [] v.t = "int" -> IntToStr(v.n)
      [] v.t = "float" -> IntToStr(v.n) \o <<".", DigitChars[v.d + 1]>>
      [] OTHER -> <<"N", "o", "n", "e">>

\* s.isdigit(): non-empty and digits only.
isdigit(s) == s # <<>> /\ \A i \in 1..Len(s) : IsDigitCh(s[i])

RECURSIVE lstrip(_)
lstrip(s) == IF s # <<>> /\ Head(s) \in Whitespace THEN lstrip(Tail(s)) ELSE s
RECURSIVE rstrip(_)
rstrip(s) ==
    IF s # <<>> /\ s[Len(s)] \in Whitespace THEN rstrip(SubSeq(s, 1, Len(s) - 1)) ELSE s
\* s.strip().
strip(s) == rstrip(lstrip(s))

\* sub in s.
Contains(s, sub) ==
    \E i \in 1..(Len(s) - Len(sub) + 1) : SubSeq(s, i, i + Len(sub) - 1) = sub

RECURSIVE replace(_, _, _)
\* s.replace(old, new), old non-empty: every non-overlapping occurrence, left to right.
replace(s, old, new) ==
    IF Len(s) < Len(old) THEN s
    ELSE IF SubSeq(s, 1, Len(old)) = old
         THEN new \o replace(SubSeq(s, Len(old) + 1, Len(s)), old, new)
         ELSE <<Head(s)>> \o replace(Tail(s), old, new)

\* d.get(key) and d.get(key, default).
Get(d, key) == IF key \in DOMAIN d THEN d[key] ELSE PyNone
GetOr(d, key, default) == IF key \in DOMAIN d THEN d[key] ELSE default

\* All sequences over S of length at most n.
BoundedSeq(S, n) == UNION {[1..k -> S] : k \in 0..n}

S_NA == <<"N", "A">>
NA == PyStr(S_NA)

\* ------------------------------------------------------------ cleaner.py
\* cleaner.UNIVERSITY_TAGS: every listed school carries all three tags.
UNIVERSITY_TAGS ==
    LET all == [tag \in {"985", "211", "shuangyiliu"} |-> TRUE]
        schools == {
            <<"bei", "jing", "da", "xue">>,  \* 北京大学
            <<"qing2", "hua", "da", "xue">>,  \* 清华大学
            <<"fu4", "dan", "da", "xue">>,  \* 复旦大学
            <<"shang", "hai", "jiao", "tong", "da", "xue">>,  \* 上海交通大学
            <<"zhe", "jiang", "da", "xue">>,  \* 浙江大学
            <<"nan", "jing", "da", "xue">>,  \* 南京大学
            <<"bei", "jing", "li", "gong", "da", "xue">>,  \* 北京理工大学
            <<"bei", "jing", "hang", "kong", "hang", "tian", "da", "xue">>,  \* 北京航空航天大学
            <<"hua", "zhong", "ke", "ji4", "da", "xue">>,  \* 华中科技大学
            <<"nan", "kai", "da", "xue">>}  \* 南开大学
    IN [name \in schools |-> all]

\* DataCleaner.add_university_tags: sets the three tag keys from the school name.
add_university_tags(admission_info) ==
    LET school_name == GetOr(admission_info, "xuexiao", PyStr(<<>>))
        known == school_name.t = "str" /\ school_name.s \in DOMAIN UNIVERSITY_TAGS
        flag(tag) == IF known /\ UNIVERSITY_TAGS[school_name.s][tag]
                     THEN PyStr(<<"1">>) ELSE PyStr(<<"0">>)
    IN [k \in DOMAIN admission_info \cup {"_985", "_211", "shuangyiliu"} |->
           CASE k = "_985" -> flag("985")
             [] k = "_211" -> flag("211")
             [] k = "shuangyiliu" -> flag("shuangyiliu")
             [] OTHER -> admission_info[k]]

\* The mutant of clean_score_impl coerces a digit-free input to the sentinel.
clean_score_coerce(score_str) ==
    IF ~Truthy(score_str) THEN PyStr(<<>>)
    ELSE LET cleaned == SelectSeq(py_str(score_str), IsDigitCh)
         IN IF cleaned # <<>> THEN PyStr(cleaned) ELSE NA

\* The body shared by clean_score and clean_ranking: '' for a false value, else
\* the digit characters of str(value), else the value stripped.
clean_score_impl(score_str) ==
    IF ~Truthy(score_str) THEN PyStr(<<>>)
    ELSE LET cleaned == SelectSeq(py_str(score_str), IsDigitCh)
         IN IF cleaned # <<>> THEN PyStr(cleaned) ELSE PyStr(strip(score_str.s))

\* DataCleaner.clean_score.
clean_score(score_str) == clean_score_impl(score_str)
\* DataCleaner.clean_ranking.
clean_ranking(ranking_str) == clean_score_impl(ranking_str)

required_fields == <<"nianfen", "xuexiao", "shengyuandi">>

\* DataCleaner.validate_data.
validate_data(admission_info) ==
    /\ \A i \in 1..Len(required_fields) : Truthy(Get(admission_info, required_fields[i]))
    /\ LET year == Get(admission_info, "nianfen")
       IN year.t = "str" => (isdigit(year.s) /\ Len(year.s) = 4)

\* The body of clean_data's loop for a record that passed validate_data.
clean_record(admission_info) ==
    LET scored == IF "zuidifen" \in DOMAIN admission_info
                  THEN [admission_info EXCEPT !["zuidifen"] = clean_score(@)]
                  ELSE admission_info
        ranked == IF "zuidifenpaiming" \in DOMAIN scored
                  THEN [scored EXCEPT !["zuidifenpaiming"] = clean_ranking(@)]
                  ELSE scored
    IN add_university_tags(ranked)

RECURSIVE clean_data_keep_all(_, _)
\* The mutant of clean_data_loop appends a record whether or not it validates.
clean_data_keep_all(admission_list, cleaned_list) ==
    IF admission_list = <<>> THEN cleaned_list
    ELSE clean_data_keep_all(Tail(admission_list),
                             Append(cleaned_list, clean_record(Head(admission_list))))

RECURSIVE clean_data_loop(_, _)
\* DataCleaner.clean_data's for loop: the rest of the input, the list built so far.
clean_data_loop(admission_list, cleaned_list) ==
    IF admission_list = <<>> THEN cleaned_list
    ELSE IF ~validate_data(Head(admission_list))
         THEN clean_data_loop(Tail(admission_list), cleaned_list)
         ELSE clean_data_loop(Tail(admission_list),
                              Append(cleaned_list, clean_record(Head(admission_list))))

\* DataCleaner.clean_data: what it returns (the list alone) and the two counts of
\* its closing log line.
clean_data(admission_list) ==
    LET cleaned_list == clean_data_loop(admission_list, <<>>)
    IN [ret |-> [t |-> "list", items |-> cleaned_list],
        log |-> [original |-> Len(admission_list), cleaned |-> Len(cleaned_list)]]

\* ----------------------------------------------------------- exporter.py
\* exporter.CSV_FIELDS, in order (= import_data.ADMISSION_REQUIRED).
CSV_FIELDS ==
    <<"nianfen", "xuexiao", "_985", "_211", "shuangyiliu", "kelei", "pici", "zhuanye",
      "zuidifen", "zuidifenpaiming", "zhaoshengdaima", "zhaoshengleixing", "shengyuandi">>
CsvFieldSet == {CSV_FIELDS[i] : i \in 1..Len(CSV_FIELDS)}

RECURSIVE StrToInt(_)
\* int(s) of a digits-only string.
StrToInt(s) ==
    IF s = <<>> THEN 0
    ELSE 10 * StrToInt(SubSeq(s, 1, Len(s) - 1))
         + (CHOOSE k \in 0..9 : DigitChars[k + 1] = s[Len(s)])

\* The year export_to_csv names the file by when none is passed: data[0]['年份'],
\* int() of it when it is a str, the current year when that fails or the key is absent.
CurrentYear == 2026
export_year(data) ==
    LET year == GetOr(data[1], "nianfen", PyInt(CurrentYear))
    IN IF year.t = "str"
       THEN (IF isdigit(strip(year.s)) THEN StrToInt(strip(year.s)) ELSE CurrentYear)
       ELSE year.n

\* CSVExporter.generate_filename: output/<school>/<school>_<year>.csv.
generate_filename(school_name, year) == [school |-> school_name, year |-> year]

\* DataFrame.to_csv of one cell: a str as it is, None as the empty cell, a number by str().
to_csv_cell(v) == IF v.t = "none" THEN <<>> ELSE py_str(v)

\* The mutant of csv_content builds the frame from the records themselves
\* (pd.DataFrame(data)): the columns are whatever keys the first record carries.
csv_content_data_keys(data) ==
    LET extra == DOMAIN data[1] \ CsvFieldSet
        extras == CHOOSE s \in [1..Cardinality(extra) -> extra] :
                      \A i, j \in 1..Cardinality(extra) : s[i] = s[j] => i = j
    IN [header |-> SelectSeq(CSV_FIELDS, LAMBDA f : f \in DOMAIN data[1]) \o extras,
        rows |-> [i \in 1..Len(data) |->
                    [f \in CsvFieldSet |-> to_csv_cell(GetOr(data[i], f, PyStr(<<>>)))]]]

\* CSVExporter.export_to_csv builds the rows: every CSV_FIELDS key, '' for one the
\* record lacks, no other key; to_csv writes the header and one line per row.
csv_content(data) ==
    [header |-> CSV_FIELDS,
     rows |-> [i \in 1..Len(data) |->
                 [f \in CsvFieldSet |-> to_csv_cell(GetOr(data[i], f, PyStr(<<>>)))]]]

\* -------------------------------------------- import_data.py: reading a file
\* import_data.ADMISSION_REQUIRED.
ADMISSION_REQUIRED ==
    <<"nianfen", "xuexiao", "_985", "_211", "shuangyiliu", "kelei", "pici", "zhuanye",
      "zuidifen", "zuidifenpaiming", "zhaoshengdaima", "zhaoshengleixing", "shengyuandi">>
\* import_admission_scores: miss = [c for c in ADMISSION_REQUIRED if c not in df.columns]
\* for the frame read from a file (its columns are the header's names).
miss(file) ==
    SelectSeq(ADMISSION_REQUIRED,
              LAMBDA c : \A i \in 1..Len(file.header) : file.header[i] # c)
PyNaN == [t |-> "nan", s |-> <<>>, n |-> 0, d |-> 0]
\* The cell texts pandas.read_csv takes for a missing value by default
\* (keep_default_na=True): '', 'NA', 'N/A', 'NaN', 'nan', 'None', 'null', 'NULL', 'n/a', ...
NaTexts ==
    {<<>>, S_NA, <<"N", "/", "A">>, <<"N", "a", "N">>, <<"n", "a", "n">>, <<"N", "o", "n", "e">>, <<"n", "u", "l", "l">>, <<"N", "U", "L", "L">>, <<"n", "/", "a">>, <<"#", "N", "/", "A">>, <<"<", "N", "A", ">">>}  \* N/A NaN nan None null NULL n/a #N/A <NA>

\* pandas.read_csv's value for one cell of a column: NaN for a missing-value text;
\* in a column whose other cells are all integers, the integer (a float once the
\* column holds a NaN); otherwise the text.
read_cell(text, numeric, has_na) ==
    IF text \in NaTexts THEN PyNaN
    ELSE IF numeric
         THEN (IF has_na THEN PyFloat(StrToInt(text), 0) ELSE PyInt(StrToInt(text)))
         ELSE PyStr(text)

\* read_csv_with_fallback: pandas.read_csv with its defaults (the utf-8-sig file the
\* exporter wrote decodes at the first encoding tried).  One dict per line.
read_csv_with_fallback(file) ==
    LET fields == {file.header[i] : i \in 1..Len(file.header)}
        present(f) == {i \in 1..Len(file.rows) : file.rows[i][f] \notin NaTexts}
        numeric(f) == present(f) # {} /\ \A i \in present(f) : isdigit(file.rows[i][f])
        has_na(f) == \E i \in 1..Len(file.rows) : file.rows[i][f] \in NaTexts
    IN [i \in 1..Len(file.rows) |->
           [f \in fields |-> read_cell(file.rows[i][f], numeric(f), has_na(f))]]

\* ------------------------------------------- schools_crawler/bit_crawler.py
\* get_value_or_na (nested in parse_batch_data and parse_major_data).
get_value_or_na(value, default) ==
    LET result == IF value.t # "none" THEN value ELSE default
    IN IF Truthy(result) THEN result ELSE NA

\* A score or rank of the API as parse_batch_data stores it: str(int(x)) for a number
\* (a float loses its fraction), str(x) for any other true value, else 'NA'.
bit_number_str(x) ==
    IF x.t \in {"int", "float"} THEN PyStr(IntToStr(x.n))
    ELSE IF Truthy(x) THEN PyStr(py_str(x))
    ELSE NA

\* The keys parse_batch_data and parse_major_data both set, apart from 专业 and 最低分排名.
bit_admission_info(item, year, province, major, rank) ==
    LET nf == GetOr(item, "nf", PyInt(year))
        school_name == <<"bei", "jing", "li", "gong", "da", "xue">>  \* 北京理工大学
        school_code == <<"1", "0", "0", "0", "7">>  \* 10007
    IN [k \in {"nianfen", "xuexiao", "kelei", "pici", "zhuanye", "zuidifen",
               "zuidifenpaiming", "zhaoshengdaima", "zhaoshengleixing", "shengyuandi"} |->
        CASE k = "nianfen" -> IF Truthy(nf) THEN PyStr(py_str(nf)) ELSE NA
          [] k = "xuexiao" -> PyStr(school_name)
          [] k = "kelei" -> get_value_or_na(Get(item, "klmc"), PyStr(<<>>))
          [] k = "pici" -> PyStr(<<"pu", "tong", "pi">>)  \* 普通批
          [] k = "zhuanye" -> major
          [] k = "zuidifen" -> bit_number_str(GetOr(item, "minScore", PyStr(<<>>)))
          [] k = "zuidifenpaiming" -> rank
          [] k = "zhaoshengdaima" -> PyStr(school_code)
          [] k = "zhaoshengleixing" -> get_value_or_na(Get(item, "zslx"), PyStr(<<"pu", "tong", "lei">>))  \* 普通类
          [] OTHER -> get_value_or_na(GetOr(item, "ssmc", PyStr(province)), PyStr(<<>>))]

\* BITCrawler.parse_batch_data: one record per item of zsSsgradeList.
parse_batch_data(batch_list, year, province) ==
    [i \in 1..Len(batch_list) |->
        LET item == batch_list[i]
            minRank == Get(item, "minRank")
            min_rank == IF Truthy(minRank) THEN minRank
                        ELSE GetOr(item, "minOrder", PyStr(<<>>))
        IN bit_admission_info(item, year, province, NA, bit_number_str(min_rank))]

\* BITCrawler.parse_major_data: one record per item of sszygradeList.
parse_major_data(major_list, year, province) ==
    [i \in 1..Len(major_list) |->
        bit_admission_info(major_list[i], year, province,
                           get_value_or_na(Get(major_list[i], "zymc"), PyStr(<<>>)), NA)]

\* BITCrawler.crawl_by_year_and_province given what get_admission_data returned:
\* ok FALSE for None (request failed, bad JSON, state # 1), else the 'data' dict of
\* the response; an empty dict is "not data", an absent list is empty.
crawl_by_year_and_province(data, year, province) ==
    IF ~data.ok \/ DOMAIN data.dict = {} THEN <<>>
    ELSE LET batch_list == IF "zsSsgradeList" \in DOMAIN data.dict
                           THEN data.dict["zsSsgradeList"] ELSE <<>>
             major_list == IF "sszygradeList" \in DOMAIN data.dict
                           THEN data.dict["sszygradeList"] ELSE <<>>
         IN parse_batch_data(batch_list, year, province)
            \o parse_major_data(major_list, year, province)

\* A value of the reply is a JSON object (a dict) and not a scalar.
is_dict(item) == "t" \notin DOMAIN item
\* parse_batch_data and parse_major_data call item.get on every item of their list:
\* an item that is not a dict (null, a number, a string) raises AttributeError, which
\* neither they nor crawl_by_year_and_province nor crawl_by_year catch.
parse_raises(list) == \E i \in 1..Len(list) : ~is_dict(list[i])
\* crawl_by_year_and_province raises instead of returning.
crawl_raises(data) ==
    /\ data.ok /\ DOMAIN data.dict # {}
    /\ \E k \in {"zsSsgradeList", "sszygradeList"} \cap DOMAIN data.dict :
          parse_raises(data.dict[k])

\* ------------------- tsinghua_crawler.py, hust_crawler.py: _parse_paragraph_format
\* The provinces list of both _parse_paragraph_format, in the order of the regex
\* alternation.
provinces == <<
    <<"nei", "meng", "gu">>, <<"hei", "long", "jiang">>, <<"xin", "jiang1">>, <<"xi", "zang">>, <<"ning", "xia">>, <<"qing1", "hai">>, <<"gan", "su4">>, <<"shaan", "xi">>,  \* 内蒙古 黑龙江 新疆 西藏 宁夏 青海 甘肃 陕西
    <<"yun", "nan">>, <<"gui", "zhou">>, <<"si", "chuan">>, <<"chong", "qing">>, <<"hai", "nan">>, <<"guang", "xi">>, <<"guang", "dong">>, <<"hu", "nan">>,  \* 云南 贵州 四川 重庆 海南 广西 广东 湖南
    <<"hu", "bei">>, <<"he", "nan">>, <<"shan", "dong">>, <<"jiang", "xi">>, <<"fu", "jian">>, <<"an", "hui">>, <<"zhe", "jiang">>, <<"jiang", "su">>,  \* 湖北 河南 山东 江西 福建 安徽 浙江 江苏
    <<"shang", "hai">>, <<"ji", "lin">>, <<"liao", "ning">>, <<"he", "bei">>, <<"shan", "xi">>, <<"tian", "jin">>, <<"bei", "jing">>>>  \* 上海 吉林 辽宁 河北 山西 天津 北京
\* (?:省|市|自治区|特别行政区)
suffixes == <<<<"sheng">>, <<"shi">>, <<"zi", "zhi", "qu">>, <<"te", "bie", "xing", "zheng", "qu">>>>  \* 省 市 自治区 特别行政区
\* [：:]
Colons == {"fw_colon", ":"}

Min(S) == CHOOSE x \in S : \A y \in S : x <= y
\* s[i:], 1-based.
From(s, i) == SubSeq(s, i, Len(s))
\* s.startswith(sub, i), 1-based.
StartsWith(s, i, sub) == i + Len(sub) - 1 <= Len(s) /\ SubSeq(s, i, i + Len(sub) - 1) = sub
\* The first index >= i of s whose character is not in S, Len(s) + 1 if none:
\* where a greedy S* that starts at i ends.
Skip(s, i, S) == Min({j \in i..Len(s) : s[j] \notin S} \cup {Len(s) + 1})
\* The first index >= i of s whose character is in S, Len(s) + 1 if none.
Find(s, i, S) == Min({j \in i..Len(s) : s[j] \in S} \cup {Len(s) + 1})

\* re.sub(r'(\d+)\.\d+', r'\1', text): a digit run followed by '.' and digits keeps
\* the digit run only.
RECURSIVE sub_decimals(_)
sub_decimals(text) ==
    IF text = <<>> THEN <<>>
    ELSE IF ~IsDigitCh(Head(text)) THEN <<Head(text)>> \o sub_decimals(Tail(text))
    ELSE LET dot == Skip(text, 1, Digits)
             end == Skip(text, dot + 1, Digits)
         IN IF dot <= Len(text) /\ text[dot] = "." /\ end > dot + 1
            THEN SubSeq(text, 1, dot - 1) \o sub_decimals(From(text, end))
            ELSE SubSeq(text, 1, dot - 1) \o sub_decimals(From(text, dot))

\* (北京|...)(?:省|市|自治区|特别行政区)?[：:] tried at index i: the province matched
\* and the index after the colon, next = 0 when it does not match.
province_prefix(s, i) ==
    LET ks == {k \in 1..Len(provinces) : StartsWith(s, i, provinces[k])}
        k == Min(ks)
        j == i + Len(provinces[k])
        ms == {m \in 1..Len(suffixes) : StartsWith(s, j, suffixes[m])}
        c == IF ms = {} THEN j ELSE j + Len(suffixes[Min(ms)])
    IN IF ks # {} /\ c <= Len(s) /\ s[c] \in Colons
       THEN [province |-> provinces[k], next |-> c + 1]
       ELSE [province |-> <<>>, next |-> 0]

\* (?=(北京|...)[：:]|$) at index i.
province_lookahead(s, i) ==
    \/ i = Len(s) + 1
    \/ \E k \in 1..Len(provinces) :
          StartsWith(s, i, provinces[k]) /\ i + Len(provinces[k]) <= Len(s)
          /\ s[i + Len(provinces[k])] \in Colons

\* province_pattern tried at index i: group 1, group 2 and the index after the match
\* (next = 0: no match).  Group 2 is the shortest non-empty run free of '；' after
\* which the lookahead holds.
province_match(s, i) ==
    LET p == province_prefix(s, i)
        ends == {e \in p.next..Len(s) :
                    /\ \A m \in p.next..e : s[m] # "fw_semi"
                    /\ province_lookahead(s, e + 1)}
    IN IF p.next # 0 /\ ends # {}
       THEN [province |-> p.province, data_part |-> SubSeq(s, p.next, Min(ends)),
             next |-> Min(ends) + 1]
       ELSE [province |-> <<>>, data_part |-> <<>>, next |-> 0]

\* list(re.finditer(province_pattern, text)) from index i on.
RECURSIVE province_finditer(_, _)
province_finditer(s, i) ==
    IF i > Len(s) THEN <<>>
    ELSE LET m == province_match(s, i)
         IN IF m.next # 0 THEN <<m>> \o province_finditer(s, m.next)
            ELSE province_finditer(s, i + 1)

\* ([^；；\d]+?)(\d+)\s*分 tried at index i: groups 1 and 2, the index after the match.
item_match(s, i) ==
    LET d == Find(s, i, Digits \cup {"fw_semi"})
        e == Skip(s, d, Digits)
        f == Skip(s, e, Whitespace)
    IN IF d > i /\ e > d /\ f <= Len(s) /\ s[f] = "fen"
       THEN [name |-> SubSeq(s, i, d - 1), score |-> SubSeq(s, d, e - 1), next |-> f + 1]
       ELSE [name |-> <<>>, score |-> <<>>, next |-> 0]

\* re.findall(r'([^；；\d]+?)(\d+)\s*分', data_part) from index i on.
RECURSIVE item_findall(_, _)
item_findall(s, i) ==
    IF i > Len(s) THEN <<>>
    ELSE LET m == item_match(s, i)
         IN IF m.next # 0 THEN <<m>> \o item_findall(s, m.next)
            ELSE item_findall(s, i + 1)

\* province_score_pattern tried at index i: (province)(suffix)?[：:]\s*(\d+)\s*分.
province_score_match(s, i) ==
    LET p == province_prefix(s, i)
        d == Skip(s, p.next, Whitespace)
        e == Skip(s, d, Digits)
        f == Skip(s, e, Whitespace)
    IN IF p.next # 0 /\ e > d /\ f <= Len(s) /\ s[f] = "fen"
       THEN [province |-> p.province, score |-> SubSeq(s, d, e - 1), next |-> f + 1]
       ELSE [province |-> <<>>, score |-> <<>>, next |-> 0]

\* re.findall(province_score_pattern, text) from index i on.
RECURSIVE province_score_findall(_, _)
province_score_findall(s, i) ==
    IF i > Len(s) THEN <<>>
    ELSE LET m == province_score_match(s, i)
         IN IF m.next # 0 THEN <<m>> \o province_score_findall(s, m.next)
            ELSE province_score_findall(s, i + 1)

RECURSIVE Flatten(_)
\* The concatenation of a list of lists.
Flatten(ss) == IF ss = <<>> THEN <<>> ELSE Head(ss) \o Flatten(Tail(ss))

\* Both _create_admission_info: province_name.replace('省', '').replace('市', '')
\* .replace('自治区', '').replace('特别行政区', '').strip().
strip_suffixes(province_name) ==
    strip(replace(replace(replace(replace(province_name,
        <<"sheng">>, <<>>), <<"shi">>, <<>>), <<"zi", "zhi", "qu">>, <<>>), <<"te", "bie", "xing", "zheng", "qu">>, <<>>))  \* 省 市 自治区 特别行政区

\* The dict both _create_admission_info return, values in CSV_FIELDS order.
admission_dict(v) ==
    [k \in CsvFieldSet |->
        PyStr(v[CHOOSE i \in 1..Len(CSV_FIELDS) : CSV_FIELDS[i] = k])]

\* TsinghuaCrawler._create_admission_info: no record (None) or one.
ts_create_admission_info(year, province, category_or_major0, score, current_batch) ==
    LET province_name == strip_suffixes(province)
        c == strip(category_or_major0)
        has(w) == Contains(c, w)
        na == S_NA
        tz == <<"tong3", "zhao">>  \* 统招
        zg == <<"zong", "he2", "gai", "ge">>  \* 综合改革
        \* <<category, major, admission_type>> after the keyword chain
        kw == IF has(<<"li", "ke">>) \/ has(<<"li", "gong">>)  \* 理科 理工
                THEN IF has(<<"ding", "xiang4">>) THEN <<<<"li", "gong">>, <<"ding", "xiang4", "sheng1">>, <<"ding", "xiang4", "sheng1">>>>  \* 定向 理工 定向生 定向生
                     ELSE <<<<"li", "gong">>, na, tz>>  \* 理工
              ELSE IF has(<<"wen", "ke">>) \/ has(<<"wen", "shi3">>) THEN <<<<"wen", "shi3">>, na, tz>>  \* 文科 文史 文史
              ELSE IF has(<<"wu", "li">>) \/ has(<<"wu", "hua2">>)  \* 物理 物化
                THEN IF has(<<"wu", "hua2">>) THEN <<zg, <<"wu", "hua2", "zu3">>, tz>> ELSE <<zg, <<"wu", "li", "zu3">>, tz>>  \* 物化 物化组 物理组
              ELSE IF has(<<"li4", "shi3">>) THEN <<zg, <<"li4", "shi3", "zu3">>, tz>>  \* 历史 历史组
              ELSE IF has(<<"bu", "xian4">>) THEN <<zg, <<"bu", "xian4", "zu3">>, tz>>  \* 不限 不限组
              ELSE IF has(<<"tong", "yong">>) THEN <<zg, <<"tong", "yong", "zu3">>, tz>>  \* 通用 通用组
              ELSE IF has(<<"yi1", "xue">>) \/ has(<<"lin2", "chuang", "yi1", "xue">>) THEN <<zg, <<"yi1", "xue", "lei">>, tz>>  \* 医学 临床医学 医学类
              ELSE IF has(<<"ma", "ke4", "si1", "zhu", "yi3", "li", "lun">>) THEN <<zg, <<"ma", "ke4", "si1", "zhu", "yi3", "li", "lun">>, tz>>  \* 马克思主义理论 马克思主义理论
              ELSE IF has(<<"yi4", "shu4", "shi3", "lun">>) THEN <<<<"yi4", "shu4", "lei">>, <<"yi4", "shu4", "shi3", "lun">>, tz>>  \* 艺术史论 艺术类 艺术史论
              ELSE IF c # <<>>
                THEN IF has(<<"ding", "xiang4">>) THEN <<<<"li", "gong">>, c, <<"ding", "xiang4", "sheng1">>>> ELSE <<na, c, tz>>  \* 定向 理工 定向生
              ELSE <<na, na, tz>>
        admission_type ==
            IF has(<<"ding", "xiang4">>) \/ kw[3] = <<"ding", "xiang4", "sheng1">> THEN <<"ding", "xiang4", "sheng1">>  \* 定向 定向生 定向生
            ELSE IF Contains(current_batch, <<"guo", "jia", "zhuan", "xiang">>) THEN <<"guo", "jia", "zhuan", "xiang", "ji2", "hua4">>  \* 国家专项 国家专项计划
            ELSE kw[3]
    IN IF province_name = <<>> \/ score = <<>> THEN <<>>
       ELSE <<admission_dict(<<IntToStr(year), <<"qing2", "hua", "da", "xue">>, <<"1">>, <<"1">>, <<"1">>,  \* 清华大学
                               kw[1], current_batch, kw[2], score, na, <<"1", "0", "0", "0", "3">>,  \* 10003
                               admission_type, province_name>>)>>

\* HUSTCrawler._extract_category_from_major.
extract_category_from_major(major) ==
    LET has(w) == Contains(major, w)
    IN IF major = <<>> \/ major = S_NA THEN S_NA
       ELSE IF has(<<"she", "ji2", "xue">>) \/ has(<<"yin", "yue", "biao", "yan">>) \/ has(<<"bo", "yin", "yu", "zhu", "chi">>) \/ has(<<"wu3", "dao", "biao", "yan">>)  \* 设计学 音乐表演 播音与主持 舞蹈表演
               \/ has(<<"yi4", "shu4">>)  \* 艺术
         THEN <<"yi4", "shu4", "lei">>  \* 艺术类
       ELSE IF has(<<"wu", "li">>) \/ has(<<"wu", "hua2">>) THEN <<"zong", "he2", "gai", "ge">>  \* 物理 物化 综合改革
       ELSE IF has(<<"li4", "shi3">>) THEN <<"zong", "he2", "gai", "ge">>  \* 历史 综合改革
       ELSE IF has(<<"li", "ke">>) \/ has(<<"li", "gong">>) THEN <<"li", "gong">>  \* 理科 理工 理工
       ELSE IF has(<<"wen", "ke">>) \/ has(<<"wen", "shi3">>) THEN <<"wen", "shi3">>  \* 文科 文史 文史
       ELSE S_NA

\* HUSTCrawler._create_admission_info: no record (None) or one.
hust_create_admission_info(year, province, category0, score, batch, major, rank) ==
    LET stripped == strip_suffixes(province)
        \* province_name.split('（')[0]
        split == SubSeq(stripped, 1, Find(stripped, 1, {"fw_lparen"}) - 1)
        province_name ==
            IF Contains(split, <<"han", "zu">>) \/ Contains(split, <<"shao", "shu", "min", "zu">>)  \* 汉族 少数民族
            THEN strip(replace(replace(split, <<"fw_lparen", "han", "zu", "fw_rparen">>, <<>>), <<"fw_lparen", "shao", "shu", "min", "zu", "fw_rparen">>, <<>>))  \* （汉族） （少数民族）
            ELSE split
        admission_type ==
            IF Contains(batch, <<"guo", "jia", "zhuan", "xiang">>) THEN <<"guo", "jia", "zhuan", "xiang", "ji2", "hua4">>  \* 国家专项 国家专项计划
            ELSE IF Contains(batch, <<"gao", "xiao", "zhuan", "xiang">>) THEN <<"gao", "xiao", "zhuan", "xiang", "ji2", "hua4">>  \* 高校专项 高校专项计划
            ELSE IF Contains(batch, <<"ding", "xiang4">>) \/ Contains(major, <<"ding", "xiang4">>) THEN <<"ding", "xiang4", "sheng1">>  \* 定向 定向 定向生
            ELSE IF Contains(batch, <<"yi4", "shu4", "lei">>) \/ category0 = <<"yi4", "shu4", "lei">> THEN <<"yi4", "shu4", "lei">>  \* 艺术类 艺术类 艺术类
            ELSE <<"tong3", "zhao">>  \* 统招
        category ==
            IF category0 # S_NA THEN category0
            ELSE IF Contains(batch, <<"yi4", "shu4", "lei">>) \/ Contains(major, <<"yi4", "shu4">>) THEN <<"yi4", "shu4", "lei">>  \* 艺术类 艺术 艺术类
            ELSE IF Contains(major, <<"wu", "li">>) \/ Contains(major, <<"wu", "hua2">>) THEN <<"zong", "he2", "gai", "ge">>  \* 物理 物化 综合改革
            ELSE IF Contains(major, <<"li4", "shi3">>) THEN <<"zong", "he2", "gai", "ge">>  \* 历史 综合改革
            ELSE category0
    IN IF province_name = <<>> \/ score = <<>> THEN <<>>
       ELSE <<admission_dict(<<IntToStr(year), <<"hua", "zhong", "ke", "ji4", "da", "xue">>, <<"1">>, <<"1">>, <<"1">>,  \* 华中科技大学
                               category, batch, major, score, rank, <<"1", "0", "4", "8", "7">>,  \* 10487
                               admission_type, province_name>>)>>

\* The mutant of batch_title takes no paragraph for a title.
batch_title_never(school, batch_text) ==
    [is_title |-> FALSE, current_batch |-> <<>>, current_major_hint |-> <<>>]
\* The batch-title branch of _parse_paragraph_format for the text of a <strong> tag:
\* whether it is a title, and the current_batch and current_major_hint it sets
\* (HUSTCrawler keeps no hint and knows neither 统招批 nor 定向批).
batch_title(school, batch_text) ==
    LET ts == school = "tsinghua"
        batch_text_clean ==
            strip(replace(replace(replace(replace(batch_text,
                <<"fw_lbracket">>, <<>>), <<"fw_rbracket">>, <<>>), <<"[">>, <<>>), <<"]">>, <<>>))  \* 【 】
        has(w) == Contains(batch_text_clean, w)
        hint == IF has(<<"li", "ke", "ding", "xiang4">>) THEN <<"li", "ke", "ding", "xiang4">>  \* 理科定向 理科定向
                ELSE IF has(<<"ma", "ke4", "si1", "zhu", "yi3", "li", "lun">>) THEN <<"ma", "ke4", "si1", "zhu", "yi3", "li", "lun">>  \* 马克思主义理论 马克思主义理论
                ELSE IF has(<<"yi4", "shu4", "shi3", "lun">>) THEN <<"yi4", "shu4", "shi3", "lun">>  \* 艺术史论 艺术史论
                ELSE <<>>
        set == IF has(<<"ti", "qian", "pi", "ci">>) \/ has(<<"ti", "qian", "pi">>)  \* 提前批次 提前批
                 THEN <<<<"ti", "qian", "pi">>, IF ts THEN hint ELSE <<>>>>  \* 提前批
               ELSE IF has(<<"guo", "jia", "zhuan", "xiang">>) THEN <<<<"guo", "jia", "zhuan", "xiang", "ji2", "hua4">>, <<>>>>  \* 国家专项 国家专项计划
               ELSE IF ts /\ has(<<"ding", "xiang4", "pi">>) THEN <<<<"ti", "qian", "pi">>, <<"ding", "xiang4", "sheng1">>>>  \* 定向批 提前批 定向生
               ELSE IF has(<<"ben", "ke", "yi", "pi">>) \/ has(<<"yi", "pi", "ci">>) \/ (ts /\ has(<<"tong3", "zhao", "pi">>))  \* 本科一批 一批次 统招批
                 THEN <<<<"ben", "ke", "yi", "pi">>, <<>>>>  \* 本科一批
               ELSE IF has(<<"ben", "ke", "er", "pi">>) \/ has(<<"er", "pi", "ci">>) THEN <<<<"ben", "ke", "er", "pi">>, <<>>>>  \* 本科二批 二批次 本科二批
               ELSE <<strip(replace(replace(replace(batch_text_clean,
                          <<"lu", "qu3", "fen", "shu", "xian">>, <<>>), <<"fw_colon">>, <<>>), <<":">>, <<>>)), <<>>>>  \* 录取分数线 ：
    IN [is_title |-> \/ Contains(batch_text, <<"pi", "ci">>) \/ Contains(batch_text, <<"fen", "shu", "xian">>)  \* 批次 分数线
                     \/ (ts /\ (Contains(batch_text, <<"tong3", "zhao", "pi">>)  \* 统招批
                                \/ Contains(batch_text, <<"ding", "xiang4", "pi">>))),  \* 定向批
        current_batch |-> set[1], current_major_hint |-> set[2]]

\* '；' in text or ';' in text.
has_semicolon(text) == Contains(text, <<"fw_semi">>) \/ Contains(text, <<";">>)  \* ；

\* TsinghuaCrawler._parse_paragraph_format on the text of one data paragraph: the
\* records of format 1 and of format 2 (format 2 only if format 1 matched no province).
ts_parse_paragraph(text0, year, current_batch, current_major_hint) ==
    LET create(province_name, category_or_major, score) ==
            ts_create_admission_info(year, province_name,
                IF category_or_major \in {<<>>, <<"fw_colon">>, <<":">>, <<"fw_comma">>, <<",">>, <<"lun">>}  \* ： ， 论
                THEN current_major_hint ELSE category_or_major,
                score, current_batch)
        of_items(province_name, items) ==
            Flatten([i \in 1..Len(items) |->
                        create(province_name, strip(items[i].name), items[i].score)])
        format1(matches) ==
            Flatten([i \in 1..Len(matches) |->
                        of_items(matches[i].province, item_findall(matches[i].data_part, 1))])
        format2(matches2) ==
            Flatten([i \in 1..Len(matches2) |->
                        ts_create_admission_info(year, matches2[i].province,
                            current_major_hint, matches2[i].score, current_batch)])
        parse(text, matches) ==
            [format1 |-> format1(matches),
             format2 |-> IF matches # <<>> THEN <<>>
                         ELSE format2(province_score_findall(text, 1))]
        of_text(text) ==
            parse(text, IF has_semicolon(text) THEN province_finditer(text, 1) ELSE <<>>)
    IN of_text(sub_decimals(text0))

\* HUSTCrawler._parse_paragraph_format on the text of one data paragraph: the
\* records of format 1 and of format 2 (format 2 is always tried).
hust_parse_paragraph(text0, year, current_batch) ==
    LET create(province_name, category_or_major, score) ==
            hust_create_admission_info(year, province_name,
                extract_category_from_major(category_or_major), score,
                current_batch, category_or_major, S_NA)
        of_items(province_name, items) ==
            Flatten([i \in 1..Len(items) |->
                        create(province_name, strip(items[i].name), items[i].score)])
        format1(matches) ==
            Flatten([i \in 1..Len(matches) |->
                        of_items(matches[i].province, item_findall(matches[i].data_part, 1))])
        format2(matches2) ==
            Flatten([i \in 1..Len(matches2) |->
                        hust_create_admission_info(year, matches2[i].province, S_NA,
                            matches2[i].score, current_batch, S_NA, S_NA)])
        of_text(text) ==
            [format1 |-> IF has_semicolon(text) THEN format1(province_finditer(text, 1))
                         ELSE <<>>,
             format2 |-> format2(province_score_findall(text, 1))]
    IN of_text(sub_decimals(text0))

\* --------------------------------- hust_crawler.py: _parse_table_format
\* batch_keywords of _parse_table_format.
batch_keywords ==
    <<<<"guo", "jia", "zhuan", "xiang">>, <<"gao", "xiao", "zhuan", "xiang">>, <<"yi4", "shu4", "lei">>, <<"ti", "qian", "pi">>, <<"ben", "ke", "yi", "pi">>, <<"ben", "ke", "er", "pi">>, <<"pu", "tong", "pi">>>>  \* 国家专项 高校专项 艺术类 提前批 本科一批 本科二批 普通批
\* any(keyword in text for keyword in batch_keywords).
any_keyword(text) == \E i \in 1..Len(batch_keywords) : Contains(text, batch_keywords[i])

\* A <td>/<th> of a row: its get_text(strip=True) and its rowspan and colspan
\* attributes ('' when the attribute is absent).
Cell(text) == [text |-> text, rowspan |-> "", colspan |-> ""]
RowSpan(text, n) == [text |-> text, rowspan |-> n, colspan |-> ""]
ColSpan(text, n) == [text |-> text, rowspan |-> "", colspan |-> n]

\* The header test of a row with at least two cells: colspan == '4' or a batch
\* keyword in the first cell.
is_title_row(cells) == cells[1].colspan = "4" \/ any_keyword(cells[1].text)

\* current_batch after a header row with this first cell.
title_row_batch(first_cell_text) ==
    LET has(w) == Contains(first_cell_text, w)
        rest == strip(replace(replace(first_cell_text, <<"lu", "qu3", "qing3", "kuang">>, <<>>), <<"fen", "shu", "xian">>, <<>>))  \* 录取情况 分数线
    IN IF has(<<"yi4", "shu4", "lei">>) THEN <<"yi4", "shu4", "lei">>  \* 艺术类 艺术类
       ELSE IF has(<<"guo", "jia", "zhuan", "xiang">>) THEN <<"guo", "jia", "zhuan", "xiang", "ji2", "hua4">>  \* 国家专项 国家专项计划
       ELSE IF has(<<"gao", "xiao", "zhuan", "xiang">>) THEN <<"gao", "xiao", "zhuan", "xiang", "ji2", "hua4">>  \* 高校专项 高校专项计划
       ELSE IF has(<<"ti", "qian", "pi">>) THEN <<"ti", "qian", "pi">>  \* 提前批 提前批
       ELSE IF has(<<"ben", "ke", "yi", "pi">>) \/ has(<<"yi", "pi">>) THEN <<"ben", "ke", "yi", "pi">>  \* 本科一批 一批 本科一批
       ELSE IF has(<<"ben", "ke", "er", "pi">>) \/ has(<<"er", "pi">>) THEN <<"ben", "ke", "er", "pi">>  \* 本科二批 二批 本科二批
       ELSE IF has(<<"pu", "tong", "pi">>) THEN <<"pu", "tong", "pi">>  \* 普通批 普通批
       ELSE IF rest = <<>> THEN <<"ben", "ke", "yi", "pi">> ELSE rest  \* 本科一批

\* The loop over the cells of a data row from cell n on: cell_texts and
\* current_province after it.  While cell_index is 0 a cell is read as the province
\* column; cell_index moves on only after a cell with no rowspan (or rowspan '1').
RECURSIVE cell_loop(_, _, _, _, _)
cell_loop(cells, n, cell_index, current_province, cell_texts) ==
    IF n > Len(cells)
    THEN [cell_texts |-> cell_texts, current_province |-> current_province]
    ELSE LET cell == cells[n]
             province == IF cell_index = 0 /\ cell.text # <<>> /\ ~any_keyword(cell.text)
                         THEN cell.text ELSE current_province
             text == IF cell_index = 0 THEN province ELSE cell.text
             index == IF cell.rowspan \in {"", "1"} THEN cell_index + 1 ELSE cell_index
         IN cell_loop(cells, n + 1, index, province, Append(cell_texts, text))

\* cell_texts padded with '' to four columns.
pad4(cell_texts) ==
    [i \in 1..(IF Len(cell_texts) < 4 THEN 4 ELSE Len(cell_texts)) |->
        IF i <= Len(cell_texts) THEN cell_texts[i] ELSE <<>>]

\* The province clean-up of _parse_table_format (_create_admission_info repeats it).
clean_province(province0) ==
    LET stripped == strip_suffixes(province0)
        split == SubSeq(stripped, 1, Find(stripped, 1, {"fw_lparen"}) - 1)
    IN IF Contains(split, <<"han", "zu">>) \/ Contains(split, <<"shao", "shu", "min", "zu">>)  \* 汉族 少数民族
       THEN strip(replace(replace(split, <<"fw_lparen", "han", "zu", "fw_rparen">>, <<>>), <<"fw_lparen", "shao", "shu", "min", "zu", "fw_rparen">>, <<>>))  \* （汉族） （少数民族）
       ELSE split

\* The 科类批次 column of a data row: a batch label (专业 'NA') or a major name.
classify_column(category_batch_col, current_batch) ==
    IF any_keyword(category_batch_col)
    THEN [major |-> S_NA,
          batch |-> IF Contains(category_batch_col, <<"guo", "jia", "zhuan", "xiang">>) THEN <<"guo", "jia", "zhuan", "xiang", "ji2", "hua4">>  \* 国家专项 国家专项计划
                    ELSE IF Contains(category_batch_col, <<"gao", "xiao", "zhuan", "xiang">>) THEN <<"gao", "xiao", "zhuan", "xiang", "ji2", "hua4">>  \* 高校专项 高校专项计划
                    ELSE IF Contains(category_batch_col, <<"yi4", "shu4", "lei">>) THEN <<"yi4", "shu4", "lei">>  \* 艺术类 艺术类
                    ELSE category_batch_col]
    ELSE [major |-> category_batch_col, batch |-> current_batch]

\* The local clean_score of _parse_table_format: None (<<>>) for '', '-', '—', 'NA'
\* and a text with no digit, else str(int(float(first number))).
table_clean_score(score_str) ==
    LET d == Find(score_str, 1, Digits)
        e == Skip(score_str, d, Digits)
    IN IF score_str \in {<<>>, <<"-">>, <<"emdash">>, S_NA} \/ d > Len(score_str) THEN <<>>  \* —
       ELSE IntToStr(StrToInt(SubSeq(score_str, d, e - 1)))

\* One iteration of the loop over the rows: what the row was taken for, the
\* context after it, and the records it added.
parse_table_row(cells, year, current_batch, current_province) ==
    IF Len(cells) < 2
    THEN [kind |-> "short", current_batch |-> current_batch,
          current_province |-> current_province, records |-> <<>>]
    ELSE IF is_title_row(cells)
    THEN [kind |-> "title", current_batch |-> title_row_batch(cells[1].text),
          current_province |-> <<>>, records |-> <<>>]
    ELSE LET looped == cell_loop(cells, 1, 0, current_province, <<>>)
             cell_texts == pad4(looped.cell_texts)
             province == clean_province(cell_texts[1])
             min_score == cell_texts[4]
             column == classify_column(cell_texts[2], current_batch)
             category_type == extract_category_from_major(column.major)
         IN [kind |-> "data", current_batch |-> current_batch,
             current_province |-> looped.current_province,
             records |-> IF province # <<>> /\ min_score # <<>>
                            /\ table_clean_score(min_score) # <<>>
                         THEN hust_create_admission_info(year, province, category_type,
                                  table_clean_score(min_score), column.batch,
                                  column.major, S_NA)
                         ELSE <<>>]

\* ------------------------------------- import_data.py: cleaning the values
\* import_data.MAX_LEN_MAJOR_NAME.
MAX_LEN_MAJOR_NAME == 224

\* pd.isna(value) of a scalar.
isna(value) == value.t \in {"none", "nan"}

\* " ".join(s.split()) of a stripped string: each run of white space becomes one ' '
\* (the first character of the run is kept, as ' ', and the others go).
split_join(s) ==
    LET kept == SelectSeq([i \in 1..Len(s) |-> i],
                          LAMBDA i : \/ s[i] \notin Whitespace
                                     \/ i = 1
                                     \/ s[i - 1] \notin Whitespace)
    IN [k \in 1..Len(kept) |-> IF s[kept[k]] \in Whitespace THEN " " ELSE s[kept[k]]]

\* s.translate(str.maketrans({'（': '(', '）': ')', '　': ' '})).
translate(s) ==
    [i \in 1..Len(s) |->
        CASE s[i] = "fw_lparen" -> "("
          [] s[i] = "fw_rparen" -> ")"
          [] s[i] = "fw_space" -> " "
          [] OTHER -> s[i]]

\* s[:n] for n >= 0.
Prefix(s, n) == SubSeq(s, 1, IF n < Len(s) THEN n ELSE Len(s))

\* import_data.sanitize_text(value, max_len); max_len is None or an int.
sanitize_text(value, max_len) ==
    IF isna(value) THEN PyNone
    ELSE IF strip(py_str(value)) = <<>> THEN PyNone
    ELSE IF max_len.t = "none" THEN PyStr(translate(split_join(strip(py_str(value)))))
    ELSE PyStr(Prefix(translate(split_join(strip(py_str(value)))), max_len.n))

\* s.count(ch) for one character.
count(s, ch) == Cardinality({i \in 1..Len(s) : s[i] = ch})
\* s.rfind(ch) for one character: the 0-based index of its last occurrence, or -1.
rfind(s, ch) ==
    IF \A i \in 1..Len(s) : s[i] # ch THEN -1
    ELSE (CHOOSE i \in 1..Len(s) : s[i] = ch /\ \A j \in (i + 1)..Len(s) : s[j] # ch) - 1
RECURSIVE rstrip_chars(_, _)
\* s.rstrip(chars).
rstrip_chars(s, chars) ==
    IF s # <<>> /\ s[Len(s)] \in chars THEN rstrip_chars(SubSeq(s, 1, Len(s) - 1), chars)
    ELSE s

\* smart_shorten_major_name after a cut at the last '、': the base, closed with '等）'
\* when it holds more '（' than '）'.
shorten_at_separator(base, max_len) ==
    IF count(base, "fw_lparen") > count(base, "fw_rparen")
    THEN LET closed == Prefix(base \o <<"deng", "fw_rparen">>, max_len)  \* 等）
         IN IF count(closed, "fw_lparen") > count(closed, "fw_rparen")
            THEN closed \o <<"fw_rparen">>  \* ）
            ELSE closed
    ELSE base

\* smart_shorten_major_name without a '、' in reach: the hard cut, closed with '）'
\* when it holds more '（' than '）'.
shorten_hard(candidate, max_len) ==
    IF count(candidate, "fw_lparen") > count(candidate, "fw_rparen")
    THEN Prefix(candidate \o <<"fw_rparen">>, max_len)  \* ）
    ELSE candidate

\* The mutant of shorten_long cuts at the first '、' instead of the last.
shorten_long_first_separator(s, max_len) ==
    IF rfind(Prefix(s, max_len), "fw_dun") # -1
    THEN shorten_at_separator(
             rstrip_chars(Prefix(s, Find(s, 1, {"fw_dun"}) - 1),
                          {"fw_dun", "fw_comma", ",", "fw_semi", ";", " "}),
             max_len)
    ELSE shorten_hard(rstrip(Prefix(s, max_len)), max_len)

\* smart_shorten_major_name for a sanitized string s longer than max_len.
shorten_long(s, max_len) ==
    IF rfind(Prefix(s, max_len), "fw_dun") # -1
    THEN shorten_at_separator(
             rstrip_chars(Prefix(s, rfind(Prefix(s, max_len), "fw_dun")),
                          {"fw_dun", "fw_comma", ",", "fw_semi", ";", " "}),
             max_len)
    ELSE shorten_hard(rstrip(Prefix(s, max_len)), max_len)

\* The mutant of smart_shorten_major_name returns the sanitized name at its full length.
smart_shorten_keep_all(value, max_len) == sanitize_text(value, PyNone)

\* import_data.smart_shorten_major_name(value, max_len).
smart_shorten_major_name(value, max_len) ==
    IF sanitize_text(value, PyNone).t = "none" THEN PyNone
    ELSE IF Len(sanitize_text(value, PyNone).s) <= max_len
    THEN sanitize_text(value, PyNone)
    ELSE PyStr(shorten_long(sanitize_text(value, PyNone).s, max_len))

\* ----------------------------------- import_data.py: one file of the loader
\* The text of a number as float() reads it, for the forms the frames hold: digits,
\* or digits '.' digits.  whole is the integer part, frac the fractional digits.
float_text(s) ==
    LET dot == Find(s, 1, {"."})
    IN [ok |-> /\ isdigit(Prefix(s, dot - 1))
               /\ (dot <= Len(s) => isdigit(From(s, dot + 1))),
        whole |-> Prefix(s, dot - 1),
        frac |-> IF dot <= Len(s) THEN From(s, dot + 1) ELSE <<>>]

\* import_data.clean_code: int(float(s)), else the digits of s, else None.
clean_code(value) ==
    IF isna(value) THEN PyNone
    ELSE IF strip(py_str(value)) = <<>> THEN PyNone
    ELSE IF float_text(strip(py_str(value))).ok
    THEN PyInt(StrToInt(float_text(strip(py_str(value))).whole))
    ELSE IF SelectSeq(strip(py_str(value)), IsDigitCh) # <<>>
    THEN PyInt(StrToInt(SelectSeq(strip(py_str(value)), IsDigitCh)))
    ELSE PyNone

\* round(x) of the float read from whole '.' frac: to the nearest integer, a tie to
\* the even one.
py_round(whole, frac) ==
    LET n == StrToInt(whole)
        first == IF frac = <<>> THEN 0 ELSE StrToInt(<<frac[1]>>)
        tie == first = 5 /\ \A i \in 2..Len(frac) : frac[i] = "0"
    IN IF first < 5 THEN n
       ELSE IF tie THEN (IF n % 2 = 0 THEN n ELSE n + 1)
       ELSE n + 1

\* import_data.to_int_safe(value) with default None.
to_int_safe(value) ==
    IF isna(value) THEN PyNone
    ELSE IF strip(py_str(value)) = <<>> THEN PyNone
    ELSE IF float_text(strip(py_str(value))).ok
    THEN PyInt(py_round(float_text(strip(py_str(value))).whole,
                        float_text(strip(py_str(value))).frac))
    ELSE PyNone

\* Series.astype(str).str.strip() of one cell: a missing value becomes 'nan'.
astype_str_strip(value) ==
    IF value.t = "nan" THEN PyStr(<<"n", "a", "n">>) ELSE PyStr(strip(py_str(value)))  \* nan

\* import_admission_scores, lines 193-219, for one row r of df[ADMISSION_REQUIRED]:
\* the cleaned code and the derived columns.
admission_row(r) ==
    [COLLEGE_CODE |-> clean_code(r["zhaoshengdaima"]),
     TYPE |-> astype_str_strip(r["kelei"]),
     MAJOR_NAME |->
         IF smart_shorten_major_name(sanitize_text(r["zhuanye"], PyNone),
                                     MAX_LEN_MAJOR_NAME).t = "none"
         THEN PyStr(<<"wei", "zhi1">>)  \* 未知
         ELSE smart_shorten_major_name(sanitize_text(r["zhuanye"], PyNone),
                                       MAX_LEN_MAJOR_NAME),
     PROVINCE |-> astype_str_strip(r["shengyuandi"]),
     ADMISSION_YEAR |-> to_int_safe(r["nianfen"]),
     MIN_SCORE |-> to_int_safe(r["zuidifen"]),
     MIN_RANK |-> to_int_safe(r["zuidifenpaiming"])]

\* valid_codes as import_admission_scores receives it: None, or a set of codes.
NoCodes == [given |-> FALSE, codes |-> {}]

\* Lines 193-198: the rows with a code and, when valid_codes is given, a code in it.
code_rows(df, valid_codes) ==
    SelectSeq([i \in 1..Len(df) |-> admission_row(df[i])],
              LAMBDA r : /\ ~isna(r.COLLEGE_CODE)
                         /\ (valid_codes.given => r.COLLEGE_CODE.n \in valid_codes.codes))

\* Line 223: df.dropna(subset=['ADMISSION_YEAR', 'MIN_SCORE']).
admission_frame(rows) ==
    SelectSeq(rows, LAMBDA r : ~isna(r.ADMISSION_YEAR) /\ ~isna(r.MIN_SCORE))

\* dedup_cols of a row.
dedup_key(r) ==
    <<r.COLLEGE_CODE, r.PROVINCE, r.ADMISSION_YEAR, r.MAJOR_NAME, r.MIN_SCORE, r.MIN_RANK>>

RECURSIVE drop_duplicates_from(_, _)
\* df.drop_duplicates(subset=dedup_cols): the first row of each key is kept (missing
\* values compare equal).
drop_duplicates_from(frame, kept) ==
    IF frame = <<>> THEN kept
    ELSE IF \E i \in 1..Len(kept) : dedup_key(kept[i]) = dedup_key(Head(frame))
    THEN drop_duplicates_from(Tail(frame), kept)
    ELSE drop_duplicates_from(Tail(frame), Append(kept, Head(frame)))
drop_duplicates(frame) == drop_duplicates_from(frame, <<>>)

\* The loop of lines 238-247: int(r['MIN_RANK']) raises for a missing rank, and with
\* it the whole list is lost.
insert_rows(frame) ==
    [raised |-> \E i \in 1..Len(frame) : isna(frame[i].MIN_RANK),
     rows |-> frame]

\* The body of import_admission_scores' loop for one csv file: what became of the
\* file, the frame that passed the filters, and the rows handed to executemany.
import_file(file, valid_codes) ==
    LET load(frame) ==
            IF insert_rows(drop_duplicates(frame)).raised
            THEN [outcome |-> "error", passed |-> frame, rows |-> <<>>]
            ELSE [outcome |-> "imported", passed |-> frame,
                  rows |-> insert_rows(drop_duplicates(frame)).rows]
        match(rows) ==
            IF valid_codes.given /\ rows = <<>>
            THEN [outcome |-> "no_match", passed |-> <<>>, rows |-> <<>>]
            ELSE load(admission_frame(rows))
    IN IF miss(file) # <<>>
       THEN [outcome |-> "skipped", passed |-> <<>>, rows |-> <<>>]
       ELSE match(code_rows(read_csv_with_fallback(file), valid_codes))

\* -------------------------- schools_crawler/nankai_crawler.py: one API call
\* self.csrf_token after the first response of a call.  get_admission_data takes the
\* token of any response that carries one; get_filter_params takes it when it has
\* none yet, or when the response is a 403.
token_after(op, token, response) ==
    IF response.token = "" THEN token
    ELSE IF op = "get_admission_data" \/ token = "" \/ response.status = 403
    THEN response.token
    ELSE token

\* The 403 branch is entered with a new token in the response headers.
refreshes(response) == response.status = 403 /\ response.token # ""

\* What the 403 branch does once the token is stored: get_admission_data posts again;
\* get_filter_params assigns to post_data, a name it never defined, and the
\* NameError takes it to `except Exception`.
after_refresh(op) == IF op = "get_admission_data" THEN "retry" ELSE "raise"

\* From response.raise_for_status() to the return: None for a status of 400 or more,
\* for a body that is not JSON and for a state other than 1, else the reply's data.
returned(response, post) ==
    IF response.status >= 400 THEN "None"
    ELSE IF response.body = "state1" THEN IF post = 1 THEN "data1" ELSE "data2"
    ELSE "None"

\* One call of NankaiCrawler.get_filter_params or get_admission_data with the
\* answers the server gives to its posts: the posts sent, self.csrf_token after
\* the call, and the value returned.
api_call(op, token, replies) ==
    LET first == replies[1]
        stored == token_after(op, token, first)
    IN IF first.raised THEN [posts |-> 1, token |-> token, ret |-> "None"]
       ELSE IF ~refreshes(first)
         THEN [posts |-> 1, token |-> stored, ret |-> returned(first, 1)]
       ELSE IF after_refresh(op) = "retry"
         THEN [posts |-> 2, token |-> stored,
               ret |-> IF replies[2].raised THEN "None" ELSE returned(replies[2], 2)]
       ELSE [posts |-> 1, token |-> stored, ret |-> "None"]

\* ================================================================ state
VARIABLES
    \* a call of DataCleaner.clean_score / clean_ranking: which, argument, result
    score_op, score_str, score_ret,
    \* a call of DataCleaner.validate_data: made, argument, result
    validate_called, admission_info, validate_ret,
    \* a call of DataCleaner.clean_data: made, argument, return value, log counts
    clean_called, admission_list, clean_ret, clean_log,
    \* the export directory: file name -> content; the data last written to each file;
    \* what the last export_to_csv call returned; the frame the loader read, and from where
    files, exported, export_ret, df, df_path,
    \* what the last write to each file did: created it, replaced other content, or
    \* wrote the content it already had
    last_write,
    \* the loader: the files of OUTPUT_DIR, the codes in college_info, the rows of
    \* college_admission_score, where main is, the files the run has not visited, the
    \* runs made, the run's total, and what the file visited last came to
    out_dir, college_info, score_table, loader_pc, loader_todo, loader_runs, loader_total,
    loader_last,
    \* a call of smart_shorten_major_name: made, argument, result
    major_called, major_value, major_ret,
    \* BITCrawler.crawl_by_year: position, provinces still to crawl, all_data
    bit_pc, bit_todo, bit_all_data,
    \* a call of NankaiCrawler.get_filter_params or get_admission_data: which, its
    \* position, self.csrf_token, what the server answers to the posts to come, the
    \* posts sent, the response in hand, the value returned
    nk_op, nk_pc, csrf_token, nk_replies, nk_posts, nk_response, nk_ret,
    \* _parse_paragraph_format: which adapter, position, the <p> elements of the
    \* content block and how many the loop has visited, current_batch,
    \* current_major_hint, admission_list, and what the paragraph visited last was
    \* and contributed
    para_school, para_pc, paragraphs, para_i, para_batch, para_hint, para_list, para_last,
    \* run_once: the school argument, its position, the schools the loop has not
    \* visited, and for each school visited what its crawl gave and how its
    \* iteration ended
    run_school, run_pc, run_todo, run_log,
    \* HUSTCrawler._parse_table_format: position, the rows after the header row and
    \* how many the loop has visited, current_batch, current_province,
    \* admission_list, and what the row visited last was taken for
    table_pc, table_rows, table_i, table_batch, table_province, table_list, table_last,
    \* parse_score_page: which adapter, its position, the page the url serves, the
    \* strategies run so far, and what is returned
    page_school, page_pc, page, page_tried, page_ret,
    \* a text whose subject category is inferred: the text, the adapters asked, and
    \* the category each gave
    cat_text, cat_called, cat_ret,
    \* crawl_by_year of an API adapter: which, its position, self.csrf_token, the
    \* provinces still to crawl, and the posts sent and sleeps made so far
    delay_school, delay_pc, delay_token, delay_todo, delay_log

vars == <<score_op, score_str, score_ret,
          validate_called, admission_info, validate_ret,
          clean_called, admission_list, clean_ret, clean_log,
          files, exported, export_ret, df, df_path, last_write,
          out_dir, college_info, score_table, loader_pc, loader_todo, loader_runs,
          loader_total, loader_last, major_called, major_value, major_ret,
          bit_pc, bit_todo, bit_all_data,
          nk_op, nk_pc, csrf_token, nk_replies, nk_posts, nk_response, nk_ret,
          para_school, para_pc, paragraphs, para_i, para_batch, para_hint, para_list,
          para_last, run_school, run_pc, run_todo, run_log,
          table_pc, table_rows, table_i, table_batch, table_province, table_list,
          table_last, page_school, page_pc, page, page_tried, page_ret,
          cat_text, cat_called, cat_ret,
          delay_school, delay_pc, delay_token, delay_todo, delay_log>>

score_vars == <<score_op, score_str, score_ret>>
validate_vars == <<validate_called, admission_info, validate_ret>>
clean_vars == <<clean_called, admission_list, clean_ret, clean_log>>
export_vars == <<files, exported, export_ret, df, df_path, last_write>>
loader_vars == <<out_dir, college_info, score_table, loader_pc, loader_todo, loader_runs,
                 loader_total, loader_last>>
major_vars == <<major_called, major_value, major_ret>>
bit_vars == <<bit_pc, bit_todo, bit_all_data>>
para_vars == <<para_school, para_pc, paragraphs, para_i, para_batch, para_hint, para_list,
          para_last>>
nankai_vars == <<nk_op, nk_pc, csrf_token, nk_replies, nk_posts, nk_response, nk_ret>>
crawl_vars == <<bit_vars, para_vars, nankai_vars>>
pipeline_vars == <<score_vars, validate_vars, clean_vars, export_vars, loader_vars,
                   major_vars>>
run_vars == <<run_school, run_pc, run_todo, run_log>>
table_vars == <<table_pc, table_rows, table_i, table_batch, table_province, table_list,
                table_last>>
page_vars == <<page_school, page_pc, page, page_tried, page_ret>>
category_vars == <<cat_text, cat_called, cat_ret>>
delay_vars == <<delay_school, delay_pc, delay_token, delay_todo, delay_log>>
late_vars == <<category_vars, delay_vars>>
adapter_vars == <<run_vars, table_vars, page_vars, late_vars>>

\* A component not under check: no call made, no input.
ScoreIdle == score_op = "none" /\ score_str = PyNone /\ score_ret = PyNone
ValidateIdle == validate_called = FALSE /\ admission_info = <<>> /\ validate_ret = FALSE
CleanIdle ==
    /\ clean_called = FALSE
    /\ admission_list = <<>>
    /\ clean_ret = [t |-> "list", items |-> <<>>]
    /\ clean_log = [original |-> 0, cleaned |-> 0]
\* An empty output directory, nothing exported or read.
NoFile == [school |-> <<>>, year |-> 0]
ExportIdle ==
    /\ files = <<>>
    /\ exported = <<>>
    /\ export_ret = NoFile
    /\ df = <<>>
    /\ df_path = NoFile
    /\ last_write = <<>>
\* No file visited yet.
NoLoad == [csv |-> NoFile, outcome |-> "none", passed |-> <<>>, rows |-> <<>>]
LoaderIdle ==
    /\ out_dir = <<>> /\ college_info = {} /\ score_table = <<>> /\ loader_pc = "idle"
    /\ loader_todo = {} /\ loader_runs = 0 /\ loader_total = 0 /\ loader_last = NoLoad
MajorIdle == major_called = FALSE /\ major_value = PyNone /\ major_ret = PyNone
\* No response: what a post that raised (connection error, timeout) leaves.
NoResponse == [raised |-> TRUE, status |-> 0, token |-> "", body |-> "none"]
NankaiIdle ==
    /\ nk_op = "none" /\ nk_pc = "idle" /\ csrf_token = "" /\ nk_replies = <<>>
    /\ nk_posts = 0 /\ nk_response = NoResponse /\ nk_ret = "unset"
BitIdle == bit_pc = "idle" /\ bit_todo = <<>> /\ bit_all_data = <<>>
NoParagraph == [title |-> FALSE, format1 |-> 0, format2 |-> 0]
ParaIdle ==
    /\ para_school = "none" /\ para_pc = "idle" /\ paragraphs = <<>> /\ para_i = 0
    /\ para_batch = <<>> /\ para_hint = <<>> /\ para_list = <<>>
    /\ para_last = NoParagraph
PipelineIdle ==
    ScoreIdle /\ ValidateIdle /\ CleanIdle /\ ExportIdle /\ LoaderIdle /\ MajorIdle
RunIdle == run_school = "none" /\ run_pc = "idle" /\ run_todo = <<>> /\ run_log = <<>>
TableIdle ==
    /\ table_pc = "idle" /\ table_rows = <<>> /\ table_i = 0 /\ table_batch = <<>>
    /\ table_province = <<>> /\ table_list = <<>> /\ table_last = "none"
\* No page, nothing returned.
NoPage == [raises |-> FALSE, div_id |-> <<>>, div_class |-> <<>>, tables |-> FALSE,
           table |-> 0, paragraph |-> 0, text |-> 0]
NoRecords == [records |-> 0, by |-> "none"]
PageIdle ==
    /\ page_school = "none" /\ page_pc = "idle" /\ page = NoPage /\ page_tried = <<>>
    /\ page_ret = NoRecords
CategoryIdle == cat_text = <<>> /\ cat_called = {} /\ cat_ret = <<>>
DelayIdle ==
    /\ delay_school = "none" /\ delay_pc = "idle" /\ delay_token = "" /\ delay_todo = <<>>
    /\ delay_log = <<>>
LateIdle == CategoryIdle /\ DelayIdle
AdapterIdle == RunIdle /\ TableIdle /\ PageIdle /\ LateIdle

\* ------------------------------------------- clean_score / clean_ranking
ScoreAlphabet == {"6", "5", "fen", " ", "N", "."}
\* 650分, NA, 690.5, " 650 ", "N A " and every short string over the alphabet.
ScoreStrings ==
    {PyStr(s) : s \in BoundedSeq(ScoreAlphabet, MaxScoreLen)}
    \cup {PyStr(<<"6", "5", "0", "fen">>), NA, PyStr(<<"6", "9", "0", ".", "5">>), PyStr(<<" ", "6", "5", "0", " ">>), PyStr(<<" ", "N", "A", "fw_space">>)}  \* 650分 690.5  650   NA　
\* What else a caller may pass for a score: numbers and None.
ScoreValues == ScoreStrings \cup {PyInt(650), PyInt(0), PyFloat(690, 5), PyNone}

\* cleaner.clean_score(score_str) is called.
CallCleanScore ==
    /\ score_op = "none"
    /\ score_op' = "clean_score"
    /\ score_ret' = clean_score(score_str)
    /\ UNCHANGED <<score_str, validate_vars, clean_vars, export_vars,
                 crawl_vars, loader_vars, major_vars,
                 adapter_vars>>

\* cleaner.clean_ranking(score_str) is called.
CallCleanRanking ==
    /\ score_op = "none"
    /\ score_op' = "clean_ranking"
    /\ score_ret' = clean_ranking(score_str)
    /\ UNCHANGED <<score_str, validate_vars, clean_vars, export_vars,
                 crawl_vars, loader_vars, major_vars,
                 adapter_vars>>

InitCleanScore ==
    /\ score_op = "none" /\ score_str \in ScoreValues /\ score_ret = PyNone
    /\ ValidateIdle /\ CleanIdle /\ ExportIdle /\ BitIdle /\ ParaIdle /\ NankaiIdle
    /\ LoaderIdle /\ MajorIdle
    /\ AdapterIdle
NextCleanScore == CallCleanScore \/ CallCleanRanking
SpecCleanScore == InitCleanScore /\ [][NextCleanScore]_vars

\* -------------------------------------------------------- validate_data
\* 年份 as a record may carry it: "2024", "24", "", "20N4", "20245", 2024, 24, None.
YearValues ==
    {PyStr(<<"2", "0", "2", "4">>), PyStr(<<"2", "4">>), PyStr(<<>>), PyStr(<<"2", "0", "N", "4">>), PyStr(<<"2", "0", "2", "4", "5">>),  \* 2024 24 20N4 20245
     PyInt(2024), PyInt(24), PyNone}
\* 学校: 北京大学, 未知 (not in UNIVERSITY_TAGS), "".
SchoolValues == {PyStr(<<"bei", "jing", "da", "xue">>), PyStr(<<"wei", "zhi1">>), PyStr(<<>>)}  \* 北京大学 未知
\* 生源地: 北京, 河北省, "", None.
ProvinceValues == {PyStr(<<"bei", "jing">>), PyStr(<<"he", "bei", "sheng">>), PyStr(<<>>), PyNone}  \* 北京 河北省

\* A dict holding exactly the keys of `present` among the three required ones, and 最低分.
InfoOf(year, school, province, present) ==
    [k \in present \cup {"zuidifen"} |->
        CASE k = "nianfen" -> year
          [] k = "xuexiao" -> school
          [] k = "shengyuandi" -> province
          [] OTHER -> PyStr(<<"6", "5", "0", "fen">>)]  \* 650分

RequiredSet == {required_fields[i] : i \in 1..Len(required_fields)}

ValidateInputs ==
    {InfoOf(y, s, p, RequiredSet) : y \in YearValues, s \in SchoolValues, p \in ProvinceValues}
    \cup {InfoOf(PyStr(<<"2", "0", "2", "4">>), PyStr(<<"bei", "jing", "da", "xue">>), PyStr(<<"bei", "jing">>), present) :  \* 2024 北京大学 北京
             present \in SUBSET RequiredSet}

\* cleaner.validate_data(admission_info) is called.
CallValidateData ==
    /\ ~validate_called
    /\ validate_called' = TRUE
    /\ validate_ret' = validate_data(admission_info)
    /\ UNCHANGED <<admission_info, score_vars, clean_vars, export_vars,
                 crawl_vars, loader_vars, major_vars,
                 adapter_vars>>

InitValidate ==
    /\ validate_called = FALSE /\ admission_info \in ValidateInputs /\ validate_ret = FALSE
    /\ ScoreIdle /\ CleanIdle /\ ExportIdle /\ BitIdle /\ ParaIdle /\ NankaiIdle
    /\ LoaderIdle /\ MajorIdle
    /\ AdapterIdle
NextValidate == CallValidateData
SpecValidate == InitValidate /\ [][NextValidate]_vars

\* ----------------------------------------------------------- clean_data
\* An adapter-shaped record (the ten keys every adapter sets).
Record(year, school, province, score, rank) ==
    [k \in {"nianfen", "xuexiao", "kelei", "pici", "zhuanye", "zuidifen",
            "zuidifenpaiming", "zhaoshengdaima", "zhaoshengleixing", "shengyuandi"} |->
        CASE k = "nianfen" -> year
          [] k = "xuexiao" -> school
          [] k = "shengyuandi" -> province
          [] k = "zuidifen" -> score
          [] k = "zuidifenpaiming" -> rank
          [] k = "kelei" -> PyStr(<<"li", "gong">>)  \* 理工
          [] k = "pici" -> PyStr(<<"pu", "tong", "pi">>)  \* 普通批
          [] k = "zhuanye" -> NA
          [] k = "zhaoshengdaima" -> PyStr(<<"1", "0", "0", "0", "1">>)  \* 10001
          [] OTHER -> PyStr(<<"tong3", "zhao">>)]  \* 统招

\* Without key k.
Without(d, k) == [x \in DOMAIN d \ {k} |-> d[x]]

CleanPool ==
    LET pku == PyStr(<<"bei", "jing", "da", "xue">>)  \* 北京大学
        bj == PyStr(<<"bei", "jing">>)  \* 北京
        y24 == PyStr(<<"2", "0", "2", "4">>)  \* 2024
    IN {Record(y24, pku, bj, PyStr(<<"6", "5", "0", "fen">>), PyStr(<<" ", "5", "6", " ">>)),  \* 650分  56 
        Record(y24, pku, bj, PyStr(<<"6", "9", "0", ".", "5">>), NA),  \* 690.5
        Record(y24, PyStr(<<"wei", "zhi1">>), bj, NA, NA),  \* 未知
        Record(PyInt(2024), pku, bj, PyInt(650), PyInt(56)),
        Record(PyStr(<<"2", "4">>), pku, bj, PyStr(<<"6", "5", "0", "fen">>), NA),  \* 24 650分
        Record(y24, pku, PyStr(<<>>), PyStr(<<"6", "5", "0", "fen">>), NA),  \* 650分
        Without(Record(y24, pku, bj, PyStr(<<"6", "5", "0", "fen">>), NA), "xuexiao"),  \* 650分
        Without(Record(y24, pku, bj, PyStr(<<"6", "5", "0", "fen">>), NA), "zuidifen")}  \* 650分

\* cleaner.clean_data(admission_list) is called.
CallCleanData ==
    /\ ~clean_called
    /\ LET out == clean_data(admission_list)
       IN /\ clean_called' = TRUE
          /\ clean_ret' = out.ret
          /\ clean_log' = out.log
    /\ UNCHANGED <<admission_list, score_vars, validate_vars, export_vars,
                 crawl_vars, loader_vars, major_vars,
                 adapter_vars>>

InitCleanData ==
    /\ clean_called = FALSE
    /\ admission_list \in BoundedSeq(CleanPool, MaxRecords)
    /\ clean_ret = [t |-> "list", items |-> <<>>]
    /\ clean_log = [original |-> 0, cleaned |-> 0]
    /\ ScoreIdle /\ ValidateIdle /\ ExportIdle /\ BitIdle /\ ParaIdle /\ NankaiIdle
    /\ LoaderIdle /\ MajorIdle
    /\ AdapterIdle
NextCleanData == CallCleanData
SpecCleanData == InitCleanData /\ [][NextCleanData]_vars

\* ------------------------------------------- export_to_csv, then the loader
\* A cleaned record: all thirteen keys.
Cleaned(year, school, major, score, rank, code) ==
    [k \in CsvFieldSet |->
        CASE k = "nianfen" -> year
          [] k = "xuexiao" -> school
          [] k = "zhuanye" -> major
          [] k = "zuidifen" -> score
          [] k = "zuidifenpaiming" -> rank
          [] k = "zhaoshengdaima" -> code
          [] k \in {"_985", "_211", "shuangyiliu"} -> PyStr(<<"1">>)
          [] k = "kelei" -> PyStr(<<"li", "gong">>)  \* 理工
          [] k = "pici" -> PyStr(<<"pu", "tong", "pi">>)  \* 普通批
          [] k = "zhaoshengleixing" -> PyStr(<<"tong3", "zhao">>)  \* 统招
          [] OTHER -> PyStr(<<"bei", "jing">>)]  \* 北京

\* 清华大学 2024 (专业 NA, 680, rank NA), 清华大学 2024 (机械, 650, rank 1200) carrying
\* a fourteenth key 备注 ("beizhu"), 北京大学 2023 (专业 NA, 最低分 NA, rank NA).
ExportPool ==
    {Cleaned(PyStr(<<"2", "0", "2", "4">>), PyStr(<<"qing2", "hua", "da", "xue">>), NA, PyStr(<<"6", "8", "0">>), NA, PyStr(<<"1", "0", "0", "0", "3">>)),  \* 2024 清华大学 680 10003
     Cleaned(PyStr(<<"2", "0", "2", "4">>), PyStr(<<"qing2", "hua", "da", "xue">>), PyStr(<<"ji1", "xie">>), PyStr(<<"6", "5", "0">>),  \* 2024 清华大学 机械 650
             PyStr(<<"1", "2", "0", "0">>), PyStr(<<"1", "0", "0", "0", "3">>)) @@ ("beizhu" :> PyStr(<<"zhu4">>)),  \* 1200 10003 注
     Cleaned(PyStr(<<"2", "0", "2", "3">>), PyStr(<<"bei", "jing", "da", "xue">>), NA, NA, NA, PyStr(<<"1", "0", "0", "0", "1">>))}  \* 2023 北京大学 10001
\* Longest record list handed to export_to_csv.
MaxExport == 2
\* The record lists export_to_csv is called with: empty, one record, two records of
\* one school in both orders, the same record twice, records of two schools (the
\* file is named after the first), and three records.
ExportLists ==
    LET r1 == Cleaned(PyStr(<<"2", "0", "2", "4">>), PyStr(<<"qing2", "hua", "da", "xue">>), NA, PyStr(<<"6", "8", "0">>), NA,  \* 2024 清华大学 680
                      PyStr(<<"1", "0", "0", "0", "3">>))  \* 10003
        r2 == Cleaned(PyStr(<<"2", "0", "2", "4">>), PyStr(<<"qing2", "hua", "da", "xue">>), PyStr(<<"ji1", "xie">>), PyStr(<<"6", "5", "0">>),  \* 2024 清华大学 机械 650
                      PyStr(<<"1", "2", "0", "0">>), PyStr(<<"1", "0", "0", "0", "3">>)) @@ ("beizhu" :> PyStr(<<"zhu4">>))  \* 1200 10003 注
        r3 == Cleaned(PyStr(<<"2", "0", "2", "3">>), PyStr(<<"bei", "jing", "da", "xue">>), NA, NA, NA, PyStr(<<"1", "0", "0", "0", "1">>))  \* 2023 北京大学 10001
    IN {d \in {<<>>, <<r1>>, <<r2>>, <<r3>>, <<r1, r2>>, <<r2, r1>>, <<r3, r3>>,
               <<r1, r3>>, <<r3, r2, r1>>} :
           Len(d) <= MaxExport /\ \A i \in 1..Len(d) : d[i] \in ExportPool}

\* f with x mapped to v (x added to its domain if new).
Put(f, x, v) == [y \in DOMAIN f \cup {x} |-> IF y = x THEN v ELSE f[y]]

\* The mutant of to_csv opens an existing file for appending: the rows already in
\* the file stay and the new rows follow them.
to_csv_append(dir, filename, frame) ==
    IF filename \in DOMAIN dir
    THEN Put(dir, filename, [header |-> dir[filename].header,
                             rows |-> dir[filename].rows \o frame.rows])
    ELSE Put(dir, filename, frame)
\* df.to_csv(filename, index=False, encoding='utf-8-sig'): pandas opens the path with
\* its default mode 'w', so the file holds the frame and nothing else.
to_csv(dir, filename, frame) == Put(dir, filename, frame)

\* exporter.export_to_csv(data, year=year) (filename and school_name not passed, as
\* export_by_year and run_once call it): nothing is written for empty data; otherwise
\* the file named by the first record's school and the year is (over)written.
ExportToCsv ==
    /\ df_path = NoFile
    /\ \E data \in ExportLists, year \in {PyNone, PyInt(2024)} :
        IF data = <<>>
        THEN /\ export_ret' = NoFile
             /\ UNCHANGED <<files, exported, last_write>>
        ELSE LET school_name == GetOr(data[1], "xuexiao", PyStr(<<"wei", "zhi1", "xue", "xiao">>)).s  \* 未知学校
                 y == IF year.t = "none" THEN export_year(data) ELSE year.n
                 filename == generate_filename(school_name, y)
             IN /\ files' = to_csv(files, filename, csv_content(data))
                /\ exported' = Put(exported, filename, data)
                /\ export_ret' = filename
                /\ last_write' =
                      Put(last_write, filename,
                          IF filename \notin DOMAIN files THEN "created"
                          ELSE IF exported[filename] = data THEN "identical"
                          ELSE "replaced")
    /\ UNCHANGED <<df, df_path, score_vars, validate_vars, clean_vars,
                 crawl_vars, loader_vars, major_vars,
                 adapter_vars>>

\* import_data.read_csv_with_fallback(csv) on one file of the output directory, as
\* import_admission_scores calls it; the loader runs after the export run.
ReadCsv ==
    /\ df_path = NoFile
    /\ \E csv \in DOMAIN files :
        /\ df' = read_csv_with_fallback(files[csv])
        /\ df_path' = csv
    /\ UNCHANGED <<files, exported, export_ret, last_write, score_vars, validate_vars,
                 clean_vars, crawl_vars, loader_vars, major_vars,
                 adapter_vars>>

InitExport ==
    /\ ExportIdle /\ ScoreIdle /\ ValidateIdle /\ CleanIdle /\ BitIdle /\ ParaIdle /\ NankaiIdle
    /\ LoaderIdle /\ MajorIdle
    /\ AdapterIdle
NextExport == ExportToCsv \/ ReadCsv
SpecExport == InitExport /\ [][NextExport]_vars

\* ------------------------------------------------ BITCrawler.crawl_by_year
\* Longest province list crawl_by_year walks (the built-in default list has 31 names).
MaxProvinces == 2
\* The year crawled.
BitYear == 2024
\* Province names: from the caller's list or the 'name' fields of ajax_lnfs_param.
BitProvinceNames == {<<"bei", "jing">>, <<"he", "bei", "sheng">>, <<>>}  \* 北京 河北省

\* Items of the two lists of an ajax_lnfs reply (JSON objects).
BitBatchItems == {
    \* {"minScore": 650, "minRank": 1200, "nf": 2024, "klmc": "理工", "zslx": "统招", "ssmc": "北京"}
    ("minScore" :> PyInt(650) @@ "minRank" :> PyInt(1200) @@ "nf" :> PyInt(2024)
     @@ "klmc" :> PyStr(<<"li", "gong">>) @@ "zslx" :> PyStr(<<"tong3", "zhao">>) @@ "ssmc" :> PyStr(<<"bei", "jing">>)),  \* 理工 统招 北京
    \* {"minScore": 690.5, "minRank": null, "minOrder": 35, "klmc": "物理", "ssmc": "河北省"}
    ("minScore" :> PyFloat(690, 5) @@ "minRank" :> PyNone @@ "minOrder" :> PyInt(35)
     @@ "klmc" :> PyStr(<<"wu", "li">>) @@ "ssmc" :> PyStr(<<"he", "bei", "sheng">>)),  \* 物理 河北省
    \* {"minScore": "", "minRank": 0, "nf": 0, "klmc": null, "zslx": "", "ssmc": ""}
    ("minScore" :> PyStr(<<>>) @@ "minRank" :> PyInt(0) @@ "nf" :> PyInt(0)
     @@ "klmc" :> PyNone @@ "zslx" :> PyStr(<<>>) @@ "ssmc" :> PyStr(<<>>))}
BitMajorItems == {
    \* {"minScore": "661", "zymc": "机械工程", "klmc": "理工", "zslx": "国家专项计划"}
    ("minScore" :> PyStr(<<"6", "6", "1">>) @@ "zymc" :> PyStr(<<"ji1", "xie", "gong", "cheng">>)  \* 机械工程
     @@ "klmc" :> PyStr(<<"li", "gong">>) @@ "zslx" :> PyStr(<<"guo", "jia", "zhuan", "xiang", "ji2", "hua4">>)),  \* 理工 国家专项计划
    \* {"zymc": null, "ssmc": "新疆（少数民族）"}
    ("zymc" :> PyNone @@ "ssmc" :> PyStr(<<"xin", "jiang1", "fw_lparen", "shao", "shu", "min", "zu", "fw_rparen">>))}  \* 新疆（少数民族）

\* What get_admission_data can return: None, {} , or a dict with either list or both,
\* each list holding one item; the item of the last reply is not an object.
BitReplies ==
    {[ok |-> FALSE, dict |-> <<>>], [ok |-> TRUE, dict |-> <<>>]}
    \cup {[ok |-> TRUE, dict |-> ("zsSsgradeList" :> <<b>>)] : b \in BitBatchItems}
    \cup {[ok |-> TRUE, dict |-> ("sszygradeList" :> <<m>>)] : m \in BitMajorItems}
    \cup {[ok |-> TRUE, dict |-> ("zsSsgradeList" :> <<b>> @@ "sszygradeList" :> <<m>>)] :
            b \in BitBatchItems, m \in BitMajorItems}
    \* {"zsSsgradeList": [null]}
    \cup {[ok |-> TRUE, dict |-> ("zsSsgradeList" :> <<PyNone>>)]}

\* crawl_by_year up to its loop: available_provinces is the caller's list, else the
\* names ajax_lnfs_param lists, else the default list; never empty.
BitCrawlByYear ==
    /\ bit_pc = "start"
    /\ \E available_provinces \in BoundedSeq(BitProvinceNames, MaxProvinces) \ {<<>>} :
        bit_todo' = available_provinces
    /\ bit_pc' = "loop"
    /\ UNCHANGED <<bit_all_data, para_vars, nankai_vars, pipeline_vars, adapter_vars>>

\* One iteration of crawl_by_year's loop: an empty name is skipped, else the
\* records of crawl_by_year_and_province extend all_data; an exception raised while
\* the province's reply is parsed leaves crawl_by_year, and nothing is returned.
BitCrawlProvince ==
    /\ bit_pc = "loop" /\ bit_todo # <<>>
    /\ LET province == Head(bit_todo)
       IN IF province = <<>>
          THEN UNCHANGED <<bit_pc, bit_all_data>>
          ELSE \E data \in BitReplies :
                  IF crawl_raises(data)
                  THEN bit_pc' = "raised" /\ UNCHANGED bit_all_data
                  ELSE /\ bit_all_data' =
                            bit_all_data
                            \o crawl_by_year_and_province(data, BitYear, province)
                       /\ UNCHANGED bit_pc
    /\ bit_todo' = Tail(bit_todo)
    /\ UNCHANGED <<para_vars, nankai_vars, pipeline_vars, adapter_vars>>

\* crawl_by_year returns all_data.
BitReturn ==
    /\ bit_pc = "loop" /\ bit_todo = <<>>
    /\ bit_pc' = "done"
    /\ UNCHANGED <<bit_todo, bit_all_data, para_vars, nankai_vars, pipeline_vars, adapter_vars>>

InitBIT ==
    /\ bit_pc = "start" /\ bit_todo = <<>> /\ bit_all_data = <<>>
    /\ ParaIdle /\ NankaiIdle /\ PipelineIdle
    /\ AdapterIdle
NextBIT == BitCrawlByYear \/ BitCrawlProvince \/ BitReturn
SpecBIT == InitBIT /\ [][NextBIT]_vars

\* --------------------------------------------------- _parse_paragraph_format
\* Most <p> elements of a content block.
MaxParagraphs == 3
\* The year of the page parsed.
ParaYear == 2024

\* A <p> element: get_text(separator=' ', strip=True) of it and, when it holds a
\* <strong> tag, that tag's get_text(strip=True).
Paragraph(text, strong) == [text |-> text, has_strong |-> TRUE, strong |-> strong]
Plain(text) == [text |-> text, has_strong |-> FALSE, strong |-> <<>>]
ParagraphPool == {
    Plain(<<>>),
    Paragraph(<<"fw_lbracket", "ben", "ke", "yi", "pi", "lu", "qu3", "fen", "shu", "xian", "fw_rbracket">>, <<"fw_lbracket", "ben", "ke", "yi", "pi", "lu", "qu3", "fen", "shu", "xian", "fw_rbracket">>),  \* 【本科一批录取分数线】 【本科一批录取分数线】
    Paragraph(<<"guo", "jia", "zhuan", "xiang", "ji2", "hua4", "pi", "ci">>, <<"guo", "jia", "zhuan", "xiang", "ji2", "hua4", "pi", "ci">>),  \* 国家专项计划批次 国家专项计划批次
    Paragraph(<<"ding", "xiang4", "pi", "fw_colon">>, <<"ding", "xiang4", "pi", "fw_colon">>),  \* 定向批： 定向批：
    Paragraph(<<"zhu4", " ", "bei", "jing", "fw_colon", "7", "0", "0", "fen">>, <<"zhu4">>),  \* 注 北京：700分 注
    Plain(<<"bei", "jing", "fw_colon", "li", "ke", " ", "6", "8", "0", "fen", "fw_semi", "wen", "ke", " ", "6", "5", "0", "fen", "fw_semi">>),  \* 北京：理科 680分；文科 650分；
    Plain(<<"bei", "jing", "fw_colon", "6", "8", "0", "fen", "fw_semi", "shang", "hai", "fw_colon", "6", "7", "0", "fen">>),  \* 北京：680分；上海：670分
    Plain(<<"bei", "jing", "fw_colon", "li", "ke", " ", "6", "8", "0", "fen", " ", "shang", "hai", "fw_colon", "wen", "ke", " ", "6", "7", "0", ".", "5", "fen", ";">>),  \* 北京：理科 680分 上海：文科 670.5分;
    Plain(<<"bei", "jing", "fw_colon", "6", "8", "0", "fen", " ", "he", "bei", "sheng", "fw_colon", "6", "5", "0", "fen">>),  \* 北京：680分 河北省：650分
    Plain(<<"bei", "jing", "fw_colon", " ", "6", "8", "0", "fen", ";">>)}  \* 北京： 680分;

\* One iteration of the loop over the paragraphs.
ParseParagraph ==
    /\ para_pc = "loop" /\ para_i < Len(paragraphs)
    /\ \E p \in {paragraphs[para_i + 1]} :
       \E title \in {batch_title(para_school, p.strong)} :
          IF p.text = <<>>
          THEN /\ para_last' = NoParagraph
               /\ UNCHANGED <<para_batch, para_hint, para_list>>
          ELSE IF p.has_strong /\ title.is_title
          THEN /\ para_batch' = title.current_batch
               /\ para_hint' = title.current_major_hint
               /\ para_last' = [NoParagraph EXCEPT !.title = TRUE]
               /\ UNCHANGED para_list
          ELSE \E parsed \in {IF para_school = "tsinghua"
                               THEN ts_parse_paragraph(p.text, ParaYear, para_batch, para_hint)
                               ELSE hust_parse_paragraph(p.text, ParaYear, para_batch)} :
               /\ para_list' = para_list \o parsed.format1 \o parsed.format2
               /\ para_last' = [title |-> FALSE, format1 |-> Len(parsed.format1),
                                format2 |-> Len(parsed.format2)]
               /\ UNCHANGED <<para_batch, para_hint>>
    /\ para_i' = para_i + 1
    /\ UNCHANGED <<para_school, para_pc, paragraphs, bit_vars, nankai_vars, pipeline_vars, adapter_vars>>

\* return admission_list.
ParseReturn ==
    /\ para_pc = "loop" /\ para_i = Len(paragraphs)
    /\ para_pc' = "done"
    /\ UNCHANGED <<para_school, paragraphs, para_i, para_batch, para_hint, para_list,
                   para_last, bit_vars, nankai_vars, pipeline_vars, adapter_vars>>

\* _parse_paragraph_format entered: the defaults of current_batch (普通批 in
\* TsinghuaCrawler, 本科一批 in HUSTCrawler) and current_major_hint.
InitParagraph ==
    /\ para_school \in {"tsinghua", "hust"}
    /\ para_pc = "loop"
    /\ paragraphs \in BoundedSeq(ParagraphPool, MaxParagraphs)
    /\ para_i = 0
    /\ para_batch = IF para_school = "tsinghua" THEN <<"pu", "tong", "pi">> ELSE <<"ben", "ke", "yi", "pi">>  \* 普通批 本科一批
    /\ para_hint = <<>>
    /\ para_list = <<>>
    /\ para_last = NoParagraph
    /\ BitIdle /\ NankaiIdle /\ PipelineIdle
    /\ AdapterIdle
NextParagraph == ParseParagraph \/ ParseReturn
SpecParagraph == InitParagraph /\ [][NextParagraph]_vars

\* ------------------------------------------------------ import_data.main
\* Runs of the loader over the same output directory.
MaxLoaderRuns == 2

RECURSIVE export_all(_, _)
\* The directory after export_to_csv(data) for each list in turn (no year passed).
export_all(dir, lists) ==
    IF lists = <<>> THEN dir
    ELSE export_all(to_csv(dir,
                           generate_filename(GetOr(Head(lists)[1], "xuexiao",
                                                   PyStr(<<"wei", "zhi1", "xue", "xiao">>)).s,  \* 未知学校
                                             export_year(Head(lists))),
                           csv_content(Head(lists))),
                    Tail(lists))

\* The output directories the loader is run over: a file 清华大学_2024 and possibly
\* 北京大学_2024 and 北京大学_2023.  The records: a (清华大学 2024, 机械, 650, rank 1200),
\* a2 (a with 科类 文史), b (清华大学 2024, 专业 NA, 680, rank NA), c (北京大学 2024, 机械, 661,
\* rank 35), d (北京大学 2023, 最低分 NA), e (a without a code).
LoaderDirs ==
    LET a == Cleaned(PyStr(<<"2", "0", "2", "4">>), PyStr(<<"qing2", "hua", "da", "xue">>), PyStr(<<"ji1", "xie">>), PyStr(<<"6", "5", "0">>),  \* 2024 清华大学 机械 650
                     PyStr(<<"1", "2", "0", "0">>), PyStr(<<"1", "0", "0", "0", "3">>))  \* 1200 10003
        a2 == [a EXCEPT !["kelei"] = PyStr(<<"wen", "shi3">>)]  \* 文史
        b == Cleaned(PyStr(<<"2", "0", "2", "4">>), PyStr(<<"qing2", "hua", "da", "xue">>), NA, PyStr(<<"6", "8", "0">>), NA,  \* 2024 清华大学 680
                     PyStr(<<"1", "0", "0", "0", "3">>))  \* 10003
        c == Cleaned(PyStr(<<"2", "0", "2", "4">>), PyStr(<<"bei", "jing", "da", "xue">>), PyStr(<<"ji1", "xie">>), PyStr(<<"6", "6", "1">>),  \* 2024 北京大学 机械 661
                     PyStr(<<"3", "5">>), PyStr(<<"1", "0", "0", "0", "1">>))  \* 35 10001
        d == Cleaned(PyStr(<<"2", "0", "2", "3">>), PyStr(<<"bei", "jing", "da", "xue">>), NA, NA, NA, PyStr(<<"1", "0", "0", "0", "1">>))  \* 2023 北京大学 10001
        e == [a EXCEPT !["zhaoshengdaima"] = NA]
    IN {export_all(<<>>, <<t>> \o p \o q) :
           t \in {<<a>>, <<a, a>>, <<a, a2, c>>, <<a, b>>, <<a, a, b>>, <<e, a>>},
           p \in {<<>>, <<<<c>>>>, <<<<c, a>>>>},
           q \in {<<>>, <<<<d>>>>}}

\* main: connects and calls import_admission_scores(conn, None), which lists the csv
\* files of OUTPUT_DIR's sub-directories.
LoaderMain ==
    /\ loader_pc = "idle"
    /\ loader_runs < MaxLoaderRuns
    /\ loader_pc' = "import"
    /\ loader_runs' = loader_runs + 1
    /\ loader_todo' = DOMAIN out_dir
    /\ loader_total' = 0
    /\ loader_last' = NoLoad
    /\ UNCHANGED <<out_dir, college_info, score_table, score_vars, validate_vars,
                 clean_vars, export_vars, major_vars, crawl_vars, adapter_vars>>

\* One pass of import_admission_scores' loop: the next file (in directory order, which
\* the file system decides) is read, filtered and deduplicated, and its rows are
\* inserted and committed; an exception is printed and the loop goes on.
ImportFile ==
    /\ loader_pc = "import"
    /\ \E csv \in loader_todo : \E r \in {import_file(out_dir[csv], NoCodes)} :
        /\ score_table' = score_table \o r.rows
        /\ loader_total' = loader_total + Len(r.rows)
        /\ loader_todo' = loader_todo \ {csv}
        /\ loader_last' = [csv |-> csv, outcome |-> r.outcome, passed |-> r.passed,
                           rows |-> r.rows]
    /\ UNCHANGED <<out_dir, college_info, loader_pc, loader_runs, score_vars,
                 validate_vars, clean_vars, export_vars, major_vars, crawl_vars, adapter_vars>>

\* The loop is over: the total is printed and main closes the connection.
LoaderClose ==
    /\ loader_pc = "import"
    /\ loader_todo = {}
    /\ loader_pc' = "idle"
    /\ UNCHANGED <<out_dir, college_info, score_table, loader_todo, loader_runs,
                 loader_total, loader_last, score_vars, validate_vars, clean_vars,
                 export_vars, major_vars, crawl_vars, adapter_vars>>

\* An export directory, a college_info table that lists 清华大学 (10003) and possibly
\* 北京大学 (10001), and an empty college_admission_score table.
InitLoader ==
    /\ out_dir \in LoaderDirs
    /\ college_info \in {{10003}, {10001, 10003}}
    /\ score_table = <<>> /\ loader_pc = "idle" /\ loader_todo = {} /\ loader_runs = 0
    /\ loader_total = 0 /\ loader_last = NoLoad
    /\ ScoreIdle /\ ValidateIdle /\ CleanIdle /\ ExportIdle /\ MajorIdle
    /\ BitIdle /\ ParaIdle /\ NankaiIdle
    /\ AdapterIdle
NextLoader == LoaderMain \/ ImportFile \/ LoaderClose
SpecLoader == InitLoader /\ [][NextLoader]_vars

\* ------------------------------------------- smart_shorten_major_name
\* Longest run of free characters laid across the 224-character limit.
MaxTail == 3

\* Major names: None, a missing value, a number, blank and short strings, and names
\* built as head + filler + tail, the filler sized so that the tail starts 0..MaxTail
\* characters before the limit MAX_LEN_MAJOR_NAME.  The tail is free over a letter,
\* '、', '，', ' ' and '（'; the head opens a parenthesis, or a list, or nothing.
MajorNames ==
    LET heads == {<<>>, <<"fw_lparen">>, <<"(", "jia3", "fw_dun", "yi5">>, <<"jia3", "fw_comma", "fw_space", "fw_dun">>}  \* （ (甲、乙 甲，　、
        tails == BoundedSeq({"a", "fw_dun", "fw_comma", " ", "fw_lparen"}, MaxTail)
        name(head, before, tail) ==
            head \o [i \in 1..(MAX_LEN_MAJOR_NAME - Len(head) - before) |-> "a"] \o tail
    IN {PyNone, PyNaN, PyInt(2024), PyStr(<<" ", " ">>), PyStr(<<"ji1", "xie", " ", "fw_lparen", "zhong", "wai", "he2", "zuo", "fw_rparen">>),  \*    机械 （中外合作）
        PyStr(<<"jia3", "fw_dun", "yi5">>)}  \* 甲、乙
       \cup {PyStr(name(head, before, tail)) :
                head \in heads, before \in 0..MaxTail, tail \in tails}

\* smart_shorten_major_name(value, MAX_LEN_MAJOR_NAME), as the loader calls it.
CallSmartShorten ==
    /\ ~major_called
    /\ major_called' = TRUE
    /\ major_ret' = smart_shorten_major_name(major_value, MAX_LEN_MAJOR_NAME)
    /\ UNCHANGED <<major_value, score_vars, validate_vars, clean_vars, export_vars,
                 loader_vars, crawl_vars, adapter_vars>>

InitShorten ==
    /\ major_called = FALSE /\ major_value \in MajorNames /\ major_ret = PyNone
    /\ ScoreIdle /\ ValidateIdle /\ CleanIdle /\ ExportIdle /\ LoaderIdle
    /\ BitIdle /\ ParaIdle /\ NankaiIdle
    /\ AdapterIdle
NextShorten == CallSmartShorten
SpecShorten == InitShorten /\ [][NextShorten]_vars

\* ------------------------- NankaiCrawler.get_filter_params, get_admission_data
\* What the server answers to one post: no answer (the post raises), or a status,
\* a Csrf-Token header or none, and a body: JSON with state 1, JSON with another
\* state, or no JSON.
NkReplies ==
    {NoResponse}
    \cup {[raised |-> FALSE, status |-> st, token |-> tk, body |-> b] :
             st \in {200, 403, 500}, tk \in {"", "tok1"},
             b \in {"state1", "state0", "notjson"}}

\* The first post of the call.  A post that raises ends the call with None.  The
\* token of the response is stored; a 403 that carries a token goes on to the retry
\* (get_admission_data) or raises on the way (get_filter_params).
NkPost ==
    /\ nk_pc = "call"
    /\ nk_posts' = 1
    /\ nk_response' = nk_replies[1]
    /\ IF nk_replies[1].raised
       THEN nk_pc' = "done" /\ nk_ret' = "None" /\ UNCHANGED csrf_token
       ELSE /\ csrf_token' = token_after(nk_op, csrf_token, nk_replies[1])
            /\ IF ~refreshes(nk_replies[1])
               THEN nk_pc' = "respond" /\ UNCHANGED nk_ret
               ELSE IF after_refresh(nk_op) = "retry"
               THEN nk_pc' = "retry" /\ UNCHANGED nk_ret
               ELSE nk_pc' = "done" /\ nk_ret' = "None"
    /\ UNCHANGED <<nk_op, nk_replies, bit_vars, para_vars, pipeline_vars, adapter_vars>>

\* The retry: one more post with the new token.
NkRetry ==
    /\ nk_pc = "retry"
    /\ nk_posts' = nk_posts + 1
    /\ nk_response' = nk_replies[2]
    /\ IF nk_replies[2].raised
       THEN nk_pc' = "done" /\ nk_ret' = "None"
       ELSE nk_pc' = "respond" /\ UNCHANGED nk_ret
    /\ UNCHANGED <<nk_op, csrf_token, nk_replies, bit_vars, para_vars, pipeline_vars, adapter_vars>>

\* raise_for_status, response.json() and the return, on the response in hand.
NkReturn ==
    /\ nk_pc = "respond"
    /\ nk_pc' = "done"
    /\ nk_ret' = returned(nk_response, nk_posts)
    /\ UNCHANGED <<nk_op, csrf_token, nk_replies, nk_posts, nk_response, bit_vars,
                 para_vars, pipeline_vars, adapter_vars>>

\* A crawler with or without a token from _init_session, about to make one call.
InitNankai ==
    /\ nk_op \in {"get_filter_params", "get_admission_data"}
    /\ nk_pc = "call"
    /\ csrf_token \in {"", "tok0"}
    /\ nk_replies \in [1..2 -> NkReplies]
    /\ nk_posts = 0 /\ nk_response = NoResponse /\ nk_ret = "unset"
    /\ BitIdle /\ ParaIdle /\ PipelineIdle
    /\ AdapterIdle
NextNankai == NkPost \/ NkRetry \/ NkReturn
SpecNankai == InitNankai /\ [][NextNankai]_vars

\* ------------------------------------------------------------ main.run_once
\* main.AVAILABLE_SCHOOLS: the keys in the order of the dict, and each key's school name.
AVAILABLE_SCHOOLS == <<"bit", "buaa", "tsinghua", "pku", "hust", "nankai">>
school_names ==
    ("bit" :> <<"bei", "jing", "li", "gong", "da", "xue">>) @@ ("buaa" :> <<"bei", "jing", "hang", "kong", "hang", "tian", "da", "xue">>) @@ ("tsinghua" :> <<"qing2", "hua", "da", "xue">>)  \* 北京理工大学 北京航空航天大学 清华大学
    @@ ("pku" :> <<"bei", "jing", "da", "xue">>) @@ ("hust" :> <<"hua", "zhong", "ke", "ji4", "da", "xue">>) @@ ("nankai" :> <<"nan", "kai", "da", "xue">>)  \* 北京大学 华中科技大学 南开大学
Supported == {AVAILABLE_SCHOOLS[i] : i \in 1..Len(AVAILABLE_SCHOOLS)}
\* The year run_once is called with.
RunYear == 2024
\* schools_to_crawl: every key when no school is given, else the one given.
schools_to_crawl(school) == IF school = "None" THEN AVAILABLE_SCHOOLS ELSE <<school>>

\* The mutant of except_clause catches KeyError alone.
except_key_error(exc) == exc = "KeyError"
\* The except clause of run_once's loop body: `except Exception` catches every
\* exception class the body's calls raise (all derive from Exception).
except_clause(exc) == exc \in {"AttributeError", "TypeError", "KeyError", "OSError"}

\* clean_data raises: validate_data calls admission_info.get on each item, and an
\* item that is not a dict has no get.
clean_raises(raw_list) == \E i \in 1..Len(raw_list) : ~is_dict(raw_list[i])

\* What crawler_class().crawl_by_year(year) does for one school: raises (the parse
\* error of a reply holding a non-object item, a bad argument), returns no record,
\* a record clean_data rejects (no province), a record it keeps, a kept and a
\* rejected record, or a list holding an item that is not a dict.
CrawlResults(school_name) ==
    LET good == Record(PyStr(<<"2", "0", "2", "4">>), PyStr(school_name), PyStr(<<"bei", "jing">>), PyStr(<<"6", "5", "0", "fen">>), NA)  \* 2024 北京 650分
        bad == Record(PyStr(<<"2", "0", "2", "4">>), PyStr(school_name), PyStr(<<>>), PyStr(<<"6", "5", "0", "fen">>), NA)  \* 2024 650分
    IN {[raised |-> "AttributeError", list |-> <<>>],
        [raised |-> "TypeError", list |-> <<>>],
        [raised |-> "", list |-> <<>>],
        [raised |-> "", list |-> <<bad>>],
        [raised |-> "", list |-> <<good>>],
        [raised |-> "", list |-> <<bad, good>>],
        [raised |-> "", list |-> <<good, PyNone>>]}

\* run_once(year, school) up to the loop: the school list, the cleaner, the exporter.
RunOnce ==
    /\ run_pc = "start"
    /\ run_todo' = schools_to_crawl(run_school)
    /\ run_pc' = "loop"
    /\ UNCHANGED <<run_school, run_log, pipeline_vars, crawl_vars, late_vars, table_vars, page_vars>>

\* One iteration of run_once's loop, the whole try body and its except clause: an
\* unknown key is skipped; the crawl, clean_data and export_by_year follow one
\* another, each `continue` and a caught exception ending the iteration only.
RunSchool ==
    /\ run_pc = "loop" /\ run_todo # <<>>
    /\ LET current_school == Head(run_todo)
           ends(raw, how) ==
               run_log' = Append(run_log, [school |-> current_school, raw |-> raw,
                                           how |-> how])
           raises(raw, exc) ==
               /\ ends(raw, "failed")
               /\ run_pc' = IF except_clause(exc) THEN "loop" ELSE "raised"
               /\ UNCHANGED <<files, exported, export_ret, last_write>>
       IN IF current_school \notin Supported
          THEN /\ ends([raised |-> "", list |-> <<>>], "unsupported")
               /\ UNCHANGED <<run_pc, files, exported, export_ret, last_write>>
          ELSE \E raw_data \in CrawlResults(school_names[current_school]) :
                 IF raw_data.raised # "" THEN raises(raw_data, raw_data.raised)
                 ELSE IF raw_data.list = <<>>
                 THEN /\ ends(raw_data, "no_data")
                      /\ UNCHANGED <<run_pc, files, exported, export_ret, last_write>>
                 ELSE IF clean_raises(raw_data.list) THEN raises(raw_data, "AttributeError")
                 ELSE \E cleaned_data \in {clean_data(raw_data.list).ret.items} :
                        IF cleaned_data = <<>>
                        THEN /\ ends(raw_data, "empty_clean")
                             /\ UNCHANGED <<run_pc, files, exported, export_ret, last_write>>
                        ELSE \E filename \in
                                 {generate_filename(
                                     GetOr(cleaned_data[1], "xuexiao", PyStr(<<"wei", "zhi1", "xue", "xiao">>)).s,  \* 未知学校
                                     RunYear)} :
                               /\ files' = to_csv(files, filename, csv_content(cleaned_data))
                               /\ exported' = Put(exported, filename, cleaned_data)
                               /\ export_ret' = filename
                               /\ last_write' =
                                     Put(last_write, filename,
                                         IF filename \notin DOMAIN files THEN "created"
                                         ELSE IF exported[filename] = cleaned_data
                                         THEN "identical" ELSE "replaced")
                               /\ ends(raw_data, "exported")
                               /\ UNCHANGED run_pc
    /\ run_todo' = Tail(run_todo)
    /\ UNCHANGED <<run_school, df, df_path, score_vars, validate_vars, clean_vars,
                   loader_vars, major_vars, crawl_vars, late_vars, table_vars, page_vars>>

\* The loop is over: run_once returns.
RunReturn ==
    /\ run_pc = "loop" /\ run_todo = <<>>
    /\ run_pc' = "done"
    /\ UNCHANGED <<run_school, run_todo, run_log, pipeline_vars, crawl_vars, late_vars, table_vars, page_vars>>

\* run_once is called with no school, with a key of AVAILABLE_SCHOOLS, or with a
\* key it does not know.
InitRunOnce ==
    /\ run_school \in {"None", "bit", "hust", "mit"}
    /\ run_pc = "start" /\ run_todo = <<>> /\ run_log = <<>>
    /\ PipelineIdle /\ BitIdle /\ ParaIdle /\ NankaiIdle /\ LateIdle /\ TableIdle /\ PageIdle
NextRunOnce == RunOnce \/ RunSchool \/ RunReturn
SpecRunOnce == InitRunOnce /\ [][NextRunOnce]_vars

\* ------------------------------------------- HUSTCrawler._parse_table_format
\* Longest list of rows after the header row.
MaxRows == 3
\* The year of the page parsed.
TableYear == 2024

\* A <tr>: its cells, and whether the province column of the row is covered by the
\* row-span of the row above (the row then has no province cell of its own).
Row(cells) == [cells |-> cells, covered |-> FALSE]
Covered(cells) == [cells |-> cells, covered |-> TRUE]
\* Rows of a results table 省份 | 科类批次 | 最高分 | 最低分: plain data rows (a major,
\* a batch label, a blank province cell, no score), rows whose province cell spans
\* two rows, the rows under such a cell, and section headers (one cell spanning the
\* four columns; a spanning cell followed by an empty cell).
TableRowPool ==
    {Row(<<Cell(<<"bei", "jing">>), Cell(<<"li", "ke">>), Cell(<<"6", "9", "0">>), Cell(<<"6", "8", "0">>)>>),  \* 北京 理科 690 680
     Row(<<Cell(<<"he", "bei", "sheng">>), Cell(<<"gao", "xiao", "zhuan", "xiang", "ji2", "hua4">>), Cell(<<"6", "4", "0">>), Cell(<<"6", "3", "0", ".", "5">>)>>),  \* 河北省 高校专项计划 640 630.5
     Row(<<Cell(<<>>), Cell(<<"wen", "ke">>), Cell(<<"6", "6", "0">>), Cell(<<"6", "5", "0">>)>>),  \* 文科 660 650
     Row(<<Cell(<<"tian", "jin">>), Cell(<<"li", "ke">>), Cell(<<"-">>), Cell(<<"-">>)>>),  \* 天津 理科 - -
     Row(<<RowSpan(<<"shang", "hai">>, "2"), Cell(<<"li", "ke">>), Cell(<<"6", "7", "0">>), Cell(<<"6", "6", "0">>)>>),  \* 上海 理科 670 660
     Row(<<RowSpan(<<"hu", "bei", "sheng">>, "2"), Cell(<<"guo", "jia", "zhuan", "xiang">>), Cell(<<"6", "5", "0">>), Cell(<<"6", "4", "0">>)>>),  \* 湖北省 国家专项 650 640
     Covered(<<Cell(<<"wen", "ke">>), Cell(<<"6", "5", "5">>), Cell(<<"6", "4", "5">>)>>),  \* 文科 655 645
     Row(<<ColSpan(<<"guo", "jia", "zhuan", "xiang", "ji2", "hua4", "lu", "qu3", "qing3", "kuang">>, "4")>>),  \* 国家专项计划录取情况
     Row(<<ColSpan(<<"yi4", "shu4", "lei">>, "4"), Cell(<<>>)>>)}  \* 艺术类
\* The rows fit together as HTML lays them out: a row lacks its province cell
\* exactly when the row above it has a province cell spanning two rows.
WellFormed(rows) ==
    \A i \in 1..Len(rows) :
        rows[i].covered <=>
            (i > 1 /\ ~rows[i - 1].covered /\ rows[i - 1].cells[1].rowspan = "2")

\* One iteration of the loop over the rows of the table.
TableRow ==
    /\ table_pc = "loop" /\ table_i < Len(table_rows)
    /\ \E parsed \in {parse_table_row(table_rows[table_i + 1].cells, TableYear,
                                      table_batch, table_province)} :
          /\ table_batch' = parsed.current_batch
          /\ table_province' = parsed.current_province
          /\ table_list' = table_list \o parsed.records
          /\ table_last' = parsed.kind
    /\ table_i' = table_i + 1
    /\ UNCHANGED <<table_pc, table_rows, run_vars, page_vars, pipeline_vars, crawl_vars, late_vars>>

\* return admission_list.
TableReturn ==
    /\ table_pc = "loop" /\ table_i = Len(table_rows)
    /\ table_pc' = "done"
    /\ UNCHANGED <<table_rows, table_i, table_batch, table_province, table_list,
                   table_last, run_vars, page_vars, pipeline_vars, crawl_vars, late_vars>>

\* _parse_table_format entered with one table: the defaults of current_batch and
\* current_province.
InitTable ==
    /\ table_pc = "loop"
    /\ table_rows \in {rows \in BoundedSeq(TableRowPool, MaxRows) : WellFormed(rows)}
    /\ table_i = 0
    /\ table_batch = <<"ben", "ke", "yi", "pi">>  \* 本科一批
    /\ table_province = <<>>
    /\ table_list = <<>>
    /\ table_last = "none"
    /\ PipelineIdle /\ BitIdle /\ ParaIdle /\ NankaiIdle /\ LateIdle /\ RunIdle /\ PageIdle
NextTable == TableRow \/ TableReturn
SpecTable == InitTable /\ [][NextTable]_vars

\* ------------------------------------ parse_score_page (HUST, Tsinghua)
\* re.compile(pattern, re.I).search(value): one of the alternatives is in the value
\* (the attribute values of the pages are lower case).
search(alternatives, value) == \E i \in 1..Len(alternatives) : Contains(value, alternatives[i])

\* content_div: the div the paragraph strategy parses, looked up by id and then by
\* class (HUSTCrawler by pattern, TsinghuaCrawler by the exact names).
content_div(school, pg) ==
    IF school = "hust"
    THEN \/ search(<<<<"c", "o", "n", "t", "e", "n", "t">>, <<"m", "a", "i", "n">>, <<"a", "r", "t", "i", "c", "l", "e">>, <<"v", "s", "b">>>>, pg.div_id)  \* content main article vsb
         \/ search(<<<<"c", "o", "n", "t", "e", "n", "t">>, <<"m", "a", "i", "n">>, <<"a", "r", "t", "i", "c", "l", "e">>, <<"t", "e", "x", "t">>, <<"b", "o", "d", "y">>, <<"v", "s", "b">>>>, pg.div_class)  \* content main article text body vsb
    ELSE pg.div_id = <<"v", "s", "b", "_", "c", "o", "n", "t", "e", "n", "t">> \/ pg.div_class = <<"v", "_", "n", "e", "w", "s", "_", "c", "o", "n", "t", "e", "n", "t">>  \* vsb_content v_news_content
\* main_content: the div the raw-text scan parses (the same lookup in both adapters).
main_content(pg) ==
    \/ search(<<<<"c", "o", "n", "t", "e", "n", "t">>, <<"m", "a", "i", "n">>, <<"a", "r", "t", "i", "c", "l", "e">>>>, pg.div_id)  \* content main article
    \/ search(<<<<"c", "o", "n", "t", "e", "n", "t">>, <<"m", "a", "i", "n">>, <<"a", "r", "t", "i", "c", "l", "e">>, <<"t", "e", "x", "t">>, <<"b", "o", "d", "y">>>>, pg.div_class)  \* content main article text body

\* The order in which parse_score_page looks for the structures.
strategy_order(school) ==
    IF school = "hust" THEN <<"table", "paragraph", "text">>
    ELSE <<"paragraph", "table", "text">>
\* The structure a strategy needs is on the page.
present(school, strategy, pg) ==
    CASE strategy = "table" -> pg.tables
      [] strategy = "paragraph" -> content_div(school, pg)
      [] OTHER -> main_content(pg)
\* The strategy's result is returned as it is (`return self._parse_...`); the
\* raw-text scan's result only when it is not empty.
returns(strategy, records) == strategy \in {"table", "paragraph"} \/ records > 0

\* The pages served: the GET fails or gives a page with at most one <div> (its id
\* and class), with or without <table> elements, and on which each strategy, if
\* run, yields no record or one.
Pages ==
    {[raises |-> FALSE, div_id |-> i, div_class |-> c, tables |-> tb,
      table |-> y[1], paragraph |-> y[2], text |-> y[3]] :
        i \in {<<>>, <<"v", "s", "b", "_", "c", "o", "n", "t", "e", "n", "t">>, <<"c", "o", "n", "t", "e", "n", "t">>, <<"v", "s", "b", "1">>},  \* vsb_content content vsb1
        c \in {<<>>, <<"v", "_", "n", "e", "w", "s", "_", "c", "o", "n", "t", "e", "n", "t">>, <<"t", "e", "x", "t">>},  \* v_news_content text
        tb \in BOOLEAN,
        y \in {<<0, 0, 0>>, <<1, 0, 0>>, <<0, 1, 0>>, <<0, 0, 1>>, <<0, 1, 1>>, <<1, 1, 1>>}}
    \cup {[NoPage EXCEPT !.raises = TRUE]}

\* session.get, raise_for_status and BeautifulSoup: an exception is caught and the
\* empty list returned.
PageGet ==
    /\ page_pc = "get"
    /\ IF page.raises THEN page_pc' = "done" ELSE page_pc' = "first"
    /\ UNCHANGED <<page_school, page, page_tried, page_ret, run_vars, table_vars,
                   pipeline_vars, crawl_vars, late_vars>>

\* One of the three `if` blocks of parse_score_page, in the adapter's order: when
\* the structure is there its strategy runs, and its result is returned or (an
\* empty raw-text scan) the empty list is.
PageTry ==
    /\ page_pc \in {"first", "second", "third"}
    /\ LET n == CASE page_pc = "first" -> 1 [] page_pc = "second" -> 2 [] OTHER -> 3
           strategy == strategy_order(page_school)[n]
       IN IF present(page_school, strategy, page)
          THEN /\ page_tried' = Append(page_tried, strategy)
               /\ page_ret' = IF returns(strategy, page[strategy])
                              THEN [records |-> page[strategy], by |-> strategy]
                              ELSE NoRecords
               /\ page_pc' = "done"
          ELSE /\ page_pc' = CASE n = 1 -> "second" [] n = 2 -> "third" [] OTHER -> "done"
               /\ UNCHANGED <<page_tried, page_ret>>
    /\ UNCHANGED <<page_school, page, run_vars, table_vars, pipeline_vars, crawl_vars, late_vars>>

\* parse_score_page is called on a page.
InitPage ==
    /\ page_school \in {"hust", "tsinghua"}
    /\ page_pc = "get"
    /\ page \in Pages
    /\ page_tried = <<>>
    /\ page_ret = NoRecords
    /\ PipelineIdle /\ BitIdle /\ ParaIdle /\ NankaiIdle /\ LateIdle /\ RunIdle /\ TableIdle
NextPage == PageGet \/ PageTry
SpecPage == InitPage /\ [][NextPage]_vars

\* ------------------------------------------------- subject-category inference
MaxWords == 2
\* The words the texts are made of: the keywords of the two chains, and words
\* that name no category.
CategoryWords ==
    {<<"li", "ke">>, <<"li", "gong">>, <<"wen", "ke">>, <<"wen", "shi3">>, <<"wu", "li">>, <<"wu", "hua2">>, <<"li4", "shi3">>, <<"yi4", "shu4">>, <<"she", "ji2", "xue">>,  \* 理科 理工 文科 文史 物理 物化 历史 艺术 设计学
     <<"yi1", "xue">>, <<"bu", "xian4">>, <<"ding", "xiang4">>, <<"ji1", "xie">>}  \* 医学 不限 定向 机械
\* The texts of at most MaxWords words.
CategoryTexts == {Flatten(ws) : ws \in BoundedSeq(CategoryWords, MaxWords)}

\* The category TsinghuaCrawler._create_admission_info gives a row whose
\* category_or_major is the text.
ts_category(text) ==
    ts_create_admission_info(ParaYear, <<"bei", "jing">>, text, <<"6", "8", "0">>, <<"ben", "ke", "pi">>)[1]["kelei"].s  \* 北京 本科批

\* HUSTCrawler._extract_category_from_major(text).
HustCategory ==
    /\ cat_text # <<>>
    /\ "hust" \notin cat_called
    /\ cat_called' = cat_called \cup {"hust"}
    /\ cat_ret' = [a \in DOMAIN cat_ret \cup {"hust"} |->
                     IF a = "hust" THEN extract_category_from_major(cat_text)
                     ELSE cat_ret[a]]
    /\ UNCHANGED <<cat_text, delay_vars, run_vars, table_vars, page_vars, pipeline_vars,
                   crawl_vars>>

\* TsinghuaCrawler._create_admission_info on a row with the text.
TsinghuaCategory ==
    /\ cat_text # <<>>
    /\ "tsinghua" \notin cat_called
    /\ cat_called' = cat_called \cup {"tsinghua"}
    /\ cat_ret' = [a \in DOMAIN cat_ret \cup {"tsinghua"} |->
                     IF a = "tsinghua" THEN ts_category(cat_text) ELSE cat_ret[a]]
    /\ UNCHANGED <<cat_text, delay_vars, run_vars, table_vars, page_vars, pipeline_vars,
                   crawl_vars>>

\* A text is given; no adapter was asked yet.
InitCategory ==
    /\ cat_text \in CategoryTexts \ {<<>>}
    /\ cat_called = {}
    /\ cat_ret = <<>>
    /\ PipelineIdle /\ BitIdle /\ ParaIdle /\ NankaiIdle /\ RunIdle /\ TableIdle /\ PageIdle
    /\ DelayIdle
NextCategory == HustCategory \/ TsinghuaCategory
SpecCategory == InitCategory /\ [][NextCategory]_vars

\* ------------------------------- crawl_by_year: the posts and the sleeps
\* n posts one after the other.
Posts(n) == [i \in 1..n |-> "post"]

\* crawl_by_year up to its loop: get_filter_params (BITCrawler: one post;
\* NankaiCrawler: api_call, which posts once there), then the province list.
DelayCrawlByYear ==
    /\ delay_pc = "start"
    /\ IF delay_school = "bit"
       THEN delay_log' = Posts(1) /\ UNCHANGED delay_token
       ELSE \E reply \in NkReplies :
              LET call == api_call("get_filter_params", delay_token, <<reply>>)
              IN delay_log' = Posts(call.posts) /\ delay_token' = call.token
    /\ \E available_provinces \in BoundedSeq(BitProvinceNames, MaxProvinces) \ {<<>>} :
          delay_todo' = available_provinces
    /\ delay_pc' = "loop"
    /\ UNCHANGED <<delay_school, category_vars, run_vars, table_vars, page_vars,
                   pipeline_vars, crawl_vars>>

\* One iteration of crawl_by_year's loop, BITCrawler: an empty name is skipped,
\* else crawl_by_year_and_province posts, returns at `if not data`, raises while
\* parsing, or parses and sleeps.
DelayBitProvince ==
    /\ delay_pc = "loop" /\ delay_todo # <<>> /\ delay_school = "bit"
    /\ IF Head(delay_todo) = <<>>
       THEN UNCHANGED <<delay_pc, delay_log>>
       ELSE \E data \in BitReplies :
              IF ~data.ok \/ DOMAIN data.dict = {}
              THEN delay_log' = delay_log \o Posts(1) /\ UNCHANGED delay_pc
              ELSE IF crawl_raises(data)
              THEN delay_log' = delay_log \o Posts(1) /\ delay_pc' = "raised"
              ELSE delay_log' = delay_log \o Posts(1) \o <<"sleep">> /\ UNCHANGED delay_pc
    /\ delay_todo' = Tail(delay_todo)
    /\ UNCHANGED <<delay_school, delay_token, category_vars, run_vars, table_vars,
                   page_vars, pipeline_vars, crawl_vars>>

\* One iteration of crawl_by_year's loop, NankaiCrawler: an empty name is
\* skipped, else crawl_by_year_and_province calls get_filter_params when it has
\* no token, then get_admission_data, returns at `if not data` (None or an empty
\* dict), or parses and sleeps.
DelayNankaiProvince ==
    /\ delay_pc = "loop" /\ delay_todo # <<>> /\ delay_school = "nankai"
    /\ IF Head(delay_todo) = <<>>
       THEN UNCHANGED <<delay_token, delay_log>>
       ELSE \E params_reply \in NkReplies, data_replies \in [1..2 -> NkReplies],
               empty \in BOOLEAN :
              LET params == IF delay_token = ""
                            THEN api_call("get_filter_params", delay_token, <<params_reply>>)
                            ELSE [posts |-> 0, token |-> delay_token, ret |-> "None"]
                  data == api_call("get_admission_data", params.token, data_replies)
              IN /\ delay_token' = data.token
                 /\ delay_log' =
                        delay_log \o Posts(params.posts) \o Posts(data.posts)
                        \o IF data.ret = "None" \/ empty THEN <<>> ELSE <<"sleep">>
    /\ delay_todo' = Tail(delay_todo)
    /\ UNCHANGED <<delay_school, delay_pc, category_vars, run_vars, table_vars, page_vars,
                   pipeline_vars, crawl_vars>>

\* crawl_by_year returns all_data.
DelayReturn ==
    /\ delay_pc = "loop" /\ delay_todo = <<>>
    /\ delay_pc' = "done"
    /\ UNCHANGED <<delay_school, delay_token, delay_todo, delay_log, category_vars,
                   run_vars, table_vars, page_vars, pipeline_vars, crawl_vars>>

\* crawl_by_year is called on a crawler, with or without a token from _init_session.
InitDelay ==
    /\ delay_school \in {"bit", "nankai"}
    /\ delay_pc = "start"
    /\ delay_token \in IF delay_school = "bit" THEN {""} ELSE {"", "tok0"}
    /\ delay_todo = <<>>
    /\ delay_log = <<>>
    /\ PipelineIdle /\ BitIdle /\ ParaIdle /\ NankaiIdle /\ RunIdle /\ TableIdle /\ PageIdle
    /\ CategoryIdle
NextDelay == DelayCrawlByYear \/ DelayBitProvince \/ DelayNankaiProvince \/ DelayReturn
SpecDelay == InitDelay /\ [][NextDelay]_vars

\* =============================================================== claims
\* ---- helpers of the claims (stated apart from the code's own operators)
HasDigit(s) == \E i \in 1..Len(s) : s[i] \in Digits
\* The digit characters of s, in their order in s.
DigitsInOrder(s) ==
    LET pos == {i \in 1..Len(s) : s[i] \in Digits}
        nth(j) == CHOOSE i \in pos : Cardinality({k \in pos : k <= i}) = j
    IN [j \in 1..Cardinality(pos) |-> s[nth(j)]]
\* s without its leading and trailing white space.
Trimmed(s) ==
    LET ink == {i \in 1..Len(s) : s[i] \notin Whitespace}
    IN IF ink = {} THEN <<>>
       ELSE SubSeq(s, CHOOSE i \in ink : \A k \in ink : i <= k,
                      CHOOSE i \in ink : \A k \in ink : k <= i)
\* The first maximal run of digits of s (its integer part when s is a decimal number).
LeadingInteger(s) ==
    LET pos == {i \in 1..Len(s) : s[i] \in Digits}
    IN IF pos = {} THEN <<>>
       ELSE LET a == CHOOSE i \in pos : \A k \in pos : i <= k
                b == CHOOSE j \in a..Len(s) :
                        /\ \A k \in a..j : s[k] \in Digits
                        /\ (j = Len(s) \/ s[j + 1] \notin Digits)
            IN SubSeq(s, a, b)
\* The input records that validate, in input order.
ValidInputs == SelectSeq(admission_list, validate_data)
TagKeys == {"_985", "_211", "shuangyiliu"}

\* A value read back that matches the string in memory: that string, or (granting the
\* claim pandas' integer columns) the integer the string writes.
ReadsBackAs(v, mem) ==
    \/ v = mem
    \/ v.t = "int" /\ mem.t = "str" /\ IntToStr(v.n) = mem.s
\* C1 (as claimed): reading an exported file back yields, for every record written and
\* each of the 13 fields, the string that was in memory; "NA" is read back as "NA",
\* not as an empty or missing value.
C1_RoundTripExact ==
    df_path # NoFile =>
        /\ Len(df) = Len(exported[df_path])
        /\ \A i \in 1..Len(df) : \A f \in CsvFieldSet :
               ReadsBackAs(df[i][f], exported[df_path][i][f])

\* C3: clean_data returns exactly the input records for which validate_data holds,
\* in input order (same keys and values apart from the cleaned score, rank and the
\* tags), and every returned record has a non-empty 年份, 学校 and 生源地.
C3_CleanDataKeepsExactlyValid ==
    clean_called =>
        LET out == clean_ret.items
        IN /\ Len(out) = Len(ValidInputs)
           /\ \A i \in 1..Len(out) :
                /\ DOMAIN out[i] = DOMAIN ValidInputs[i] \cup TagKeys
                /\ \A k \in DOMAIN ValidInputs[i] \ (TagKeys \cup {"zuidifen", "zuidifenpaiming"}) :
                       out[i][k] = ValidInputs[i][k]
                /\ \A k \in RequiredSet : k \in DOMAIN out[i] /\ Truthy(out[i][k])
\* C3 witness: a call that dropped an invalid record and kept a valid one behind it.
C3_Witness ==
    /\ clean_called
    /\ Len(admission_list) = 2
    /\ ~validate_data(admission_list[1])
    /\ Len(clean_ret.items) = 1

\* A year that consists of exactly four digits, whatever its type.
FourDigitYear(year) == year.t # "none" /\ Len(py_str(year)) = 4 /\ isdigit(py_str(year))
\* C4 (as claimed): validate_data returns true iff 年份, 学校 and 生源地 are present and
\* non-empty and 年份 consists of exactly 4 digits, for every representation of the year.
C4_ValidateIffRequiredAndFourDigitYear ==
    validate_called =>
        (validate_ret <=>
            /\ \A k \in RequiredSet : k \in DOMAIN admission_info /\ Truthy(admission_info[k])
            /\ FourDigitYear(Get(admission_info, "nianfen")))

\* C5: for a string s, clean_score and clean_ranking return the digits of s in order
\* when s has a digit, and otherwise s trimmed and nothing else changed.
C5_CleanScoreDigitsOrTrimmed ==
    (score_op # "none" /\ score_str.t = "str") =>
        score_ret = IF HasDigit(score_str.s) THEN PyStr(DigitsInOrder(score_str.s))
                    ELSE PyStr(Trimmed(score_str.s))
\* C5 witness: clean_ranking(" NA　") returned "NA": trimmed, not coerced.
C5_Witness ==
    /\ score_op = "clean_ranking"
    /\ score_str = PyStr(<<" ", "N", "A", "fw_space">>)  \*  NA　
    /\ score_ret = NA

\* C6 (as claimed): in every record clean_data returns, 最低分 is "NA" or a non-empty
\* digits-only string equal to the source score with its fraction truncated.
C6_MinScoreIsTruncatedInteger ==
    clean_called =>
        \A i \in 1..Len(clean_ret.items) :
            "zuidifen" \in DOMAIN clean_ret.items[i] =>
                LET v == clean_ret.items[i]["zuidifen"]
                    src == ValidInputs[i]["zuidifen"]
                IN \/ v = NA
                   \/ /\ v.t = "str"
                      /\ isdigit(v.s)
                      /\ v.s = LeadingInteger(py_str(src))

\* C7 (as claimed): clean_data returns the survivors together with a count of dropped
\* records equal to the number of inputs minus the number of survivors.
C7_ReturnsSurvivorsAndDroppedCount ==
    clean_called =>
        /\ clean_ret.t = "tuple"
        /\ Len(clean_ret.items) = 2
        /\ clean_ret.items[2] = PyInt(Len(admission_list) - Len(clean_ret.items[1].items))
\* C7 (amended): clean_data returns the list of survivors alone; the two counts of its
\* log line are the input and survivor counts, and their difference is the number of
\* input records that failed validate_data.
C7_DroppedCountIsLoggedDifference ==
    clean_called =>
        /\ clean_ret.t = "list"
        /\ clean_log.original = Len(admission_list)
        /\ clean_log.cleaned = Len(clean_ret.items)
        /\ clean_log.original - clean_log.cleaned =
               Cardinality({i \in 1..Len(admission_list) : ~validate_data(admission_list[i])})
\* C7 witness: a call that dropped two of three records.
C7_Witness ==
    /\ clean_called
    /\ clean_log.original = 3
    /\ clean_log.cleaned = 1

\* ----------------------------------------------------------- adapter records
\* The records crawl_by_year has returned.
BitReturned == IF bit_pc = "done" THEN bit_all_data ELSE <<>>
AdminSuffixes == {<<"sheng">>, <<"shi">>, <<"zi", "zhi", "qu">>, <<"te", "bie", "xing", "zheng", "qu">>}  \* 省 市 自治区 特别行政区
AdmissionTypes == {<<"tong3", "zhao">>, <<"guo", "jia", "zhuan", "xiang", "ji2", "hua4">>, <<"gao", "xiao", "zhuan", "xiang", "ji2", "hua4">>, <<"ding", "xiang4", "sheng1">>, <<"yi4", "shu4", "lei">>}  \* 统招 国家专项计划 高校专项计划 定向生 艺术类

\* C8 (as claimed): every record crawl_by_year returns has exactly the 13 canonical
\* keys, and every value is a non-empty string.
C8_RecordHasThirteenStringFields ==
    \A i \in 1..Len(BitReturned) :
        /\ DOMAIN BitReturned[i] = CsvFieldSet
        /\ \A k \in DOMAIN BitReturned[i] :
              BitReturned[i][k].t = "str" /\ BitReturned[i][k].s # <<>>

\* C9 (as claimed): 生源地 of every record returned contains no administrative suffix
\* (省, 市, 自治区, 特别行政区) and no parenthetical qualifier.
C9_ProvinceHasNoSuffix ==
    \A i \in 1..Len(BitReturned) :
        LET province == py_str(BitReturned[i]["shengyuandi"])
        IN /\ \A suffix \in AdminSuffixes : ~Contains(province, suffix)
           /\ ~Contains(province, <<"fw_lparen">>) /\ ~Contains(province, <<"(">>)  \* （

\* C10 (as claimed): 招生类型 of every record returned is one of 统招, 国家专项计划,
\* 高校专项计划, 定向生, 艺术类.
C10_AdmissionTypeIsOneOfFive ==
    \A i \in 1..Len(BitReturned) :
        py_str(BitReturned[i]["zhaoshengleixing"]) \in AdmissionTypes

\* ------------------------------------------------------ free-text adapters
\* The paragraph of the end-to-end scenario.
ScenarioParagraph == Plain(<<"bei", "jing", "fw_colon", "li", "ke", " ", "6", "8", "0", "fen", "fw_semi", "wen", "ke", " ", "6", "5", "0", "fen", "fw_semi">>)  \* 北京：理科 680分；文科 650分；
\* A paragraph that is a batch title for the adapter parsing.
IsTitle(p) == p.has_strong /\ batch_title(para_school, p.strong).is_title
\* The content block's only data paragraph is the scenario's, after any titles.
ScenarioParsed ==
    /\ para_pc = "done" /\ paragraphs # <<>>
    /\ paragraphs[Len(paragraphs)] = ScenarioParagraph
    /\ \A i \in 1..(Len(paragraphs) - 1) : IsTitle(paragraphs[i])
\* A record with the given 生源地, 科类, 最低分 and 批次.
IsRecord(r, province, category, score, batch) ==
    /\ r["shengyuandi"] = PyStr(province) /\ r["kelei"] = PyStr(category)
    /\ r["zuidifen"] = PyStr(score) /\ r["pici"] = PyStr(batch)

\* C2 (as claimed): when the scenario paragraph is the only data paragraph, the
\* adapter returns exactly two records, (北京, 理工, 680) and (北京, 文史, 650), both
\* with 批次 the batch of the most recent title.
C2_ScenarioYieldsTwoRecords ==
    ScenarioParsed =>
        /\ Len(para_list) = 2
        /\ IsRecord(para_list[1], <<"bei", "jing">>, <<"li", "gong">>, <<"6", "8", "0">>, para_batch)  \* 北京 理工 680
        /\ IsRecord(para_list[2], <<"bei", "jing">>, <<"wen", "shi3">>, <<"6", "5", "0">>, para_batch)  \* 北京 文史 650

\* ------------------------------------------------------------ export files
\* The 13 canonical field names in the documented order: year, school, tier_985,
\* tier_211, tier_double_first_class, subject_category, batch, major, min_score,
\* min_rank, admission_code, admission_type, source_province.
CanonicalOrder ==
    <<"nianfen", "xuexiao", "_985", "_211", "shuangyiliu", "kelei", "pici", "zhuanye",
      "zuidifen", "zuidifenpaiming", "zhaoshengdaima", "zhaoshengleixing", "shengyuandi">>

\* C11: every file export_to_csv has written has as header exactly the 13 canonical
\* names in the documented order, each row holds those columns and no other, and
\* the loader finds none of its required columns missing.
C11_HeaderIsCanonical ==
    \A f \in DOMAIN files :
        /\ files[f].header = CanonicalOrder
        /\ \A i \in 1..Len(files[f].rows) :
              DOMAIN files[f].rows[i] = {CanonicalOrder[k] : k \in 1..Len(CanonicalOrder)}
        /\ miss(files[f]) = <<>>
\* A file written from a list whose first record carries a key outside the 13.
C11_Witness ==
    \E f \in DOMAIN files : "beizhu" \in DOMAIN exported[f][1]


\* C12: after any sequence of export_to_csv calls the file of a (school, year) holds
\* exactly the records of the most recent non-empty export to it, one row per record
\* in order and no row of an earlier export; and an export of the list a file was
\* last written from (like every call that writes another file or nothing) leaves
\* that file's content as it was.
C12_LastExportWins ==
    /\ [](\A f \in DOMAIN files :
            /\ Len(files[f].rows) = Len(exported[f])
            /\ \A i \in 1..Len(exported[f]) : \A c \in CsvFieldSet :
                  files[f].rows[i][c] = to_csv_cell(exported[f][i][c]))
    /\ [][\A f \in DOMAIN files :
            exported'[f] = exported[f] => files'[f] = files[f]]_vars
\* One file was overwritten with other records and another rewritten from the list
\* it already held.
C12_Witness ==
    \E f, g \in DOMAIN files :
        /\ last_write[f] = "replaced"
        /\ last_write[g] = "identical"
        /\ Len(files[g].rows) = 2


\* C13: when rows of a file share a composite key (code, province, year, major,
\* min_score, min_rank), the rows the loader inserts from the file hold exactly one
\* row per distinct key, and every key of a row of the file that passed the code,
\* year and score filters is among them.
C13_OneRowPerDistinctKey ==
    (\E i, j \in 1..Len(loader_last.passed) :
        i # j /\ dedup_key(loader_last.passed[i]) = dedup_key(loader_last.passed[j])) =>
        /\ \A i, j \in 1..Len(loader_last.rows) :
              dedup_key(loader_last.rows[i]) = dedup_key(loader_last.rows[j]) => i = j
        /\ \A i \in 1..Len(loader_last.passed) :
              \E j \in 1..Len(loader_last.rows) :
                  dedup_key(loader_last.rows[j]) = dedup_key(loader_last.passed[i])

\* C14: after any sequence of loader runs the admission-score table holds at most
\* one row per composite key.
C14_TableHasOneRowPerKey ==
    \A i, j \in 1..Len(score_table) :
        dedup_key(score_table[i]) = dedup_key(score_table[j]) => i = j

\* C15: every row of the admission-score table carries a code that is in the
\* institution reference table.
C15_InsertedCodesAreReferenced ==
    \A i \in 1..Len(score_table) : score_table[i].COLLEGE_CODE.n \in college_info


\* C16: smart_shorten_major_name(value, 224) returns None or a string of at most
\* 224 characters, for every value.
C16_AtMostMaxLen ==
    major_called =>
        \/ major_ret.t = "none"
        \/ major_ret.t = "str" /\ Len(major_ret.s) <= 224
\* A name longer than 224 characters was cut at a separator and the text kept opens
\* a parenthesis it does not close.
C16_Witness ==
    /\ major_called
    /\ Len(py_str(major_value)) > 224
    /\ major_ret.t = "str"
    /\ Len(major_ret.s) < 223
    /\ count(major_ret.s, "(") > count(major_ret.s, ")")


\* The last position of s that holds (in = TRUE) or does not hold (in = FALSE) a
\* character of S; 0 when there is none.
LastIndex(s, S, in) ==
    LET last(idx) == IF idx = <<>> THEN 0 ELSE idx[Len(idx)]
    IN last(SelectSeq([i \in 1..Len(s) |-> i], LAMBDA i : (s[i] \in S) = in))
\* text without the list punctuation ('、', '，', ',', '；', ';', ' ') at its end.
TrimList(text) ==
    Prefix(text, LastIndex(text, {"fw_dun", "fw_comma", ",", "fw_semi", ";", " "}, FALSE))
\* The text before the last '、' of head, trimmed.
BeforeLastSeparator(head) == TrimList(Prefix(head, LastIndex(head, {"fw_dun"}, TRUE) - 1))
\* head without the white space at its end.
TrimSpace(head) == Prefix(head, LastIndex(head, Whitespace, FALSE))
\* ret is kept followed by nothing, or by a closing marker made of 等 and ）.
KeptThenMarker(ret, kept) ==
    /\ Prefix(ret, Len(kept)) = kept
    /\ From(ret, Len(kept) + 1) \in BoundedSeq({"deng", "fw_rparen", ")"}, 3)
\* A call with a name (the value is neither missing nor blank).
ShortenedName ==
    major_called /\ sanitize_text(major_value, PyNone).t = "str" /\ major_ret.t = "str"

\* The three cases of C17 for a name (the value after sanitize_text), the first 224
\* characters of it and the result; hard tells what a name without '、' must give.
ShortenCases(name, head, ret, hard(_, _)) ==
    IF Len(name) <= 224 THEN ret = name
    ELSE IF LastIndex(head, {"fw_dun"}, TRUE) # 0
    THEN KeptThenMarker(ret, BeforeLastSeparator(head))
    ELSE hard(ret, head)

Opens(s) == count(s, "(") + count(s, "fw_lparen")
Closes(s) == count(s, ")") + count(s, "fw_rparen")
\* s ends with sub.
EndsWith(s, sub) == Len(s) >= Len(sub) /\ From(s, Len(s) - Len(sub) + 1) = sub

\* C18 for a name longer than 224 characters, its first 224 characters and the result.
ClosedAfterCut(name, head, ret) ==
    /\ LastIndex(head, {"fw_dun"}, TRUE) # 0
       /\ Opens(BeforeLastSeparator(head)) > Closes(BeforeLastSeparator(head))
       => (EndsWith(ret, <<"deng", "fw_rparen">>) \/ EndsWith(ret, <<"deng", ")">>))  \* 等） 等)
    /\ LastIndex(head, {"fw_dun"}, TRUE) = 0
       /\ Opens(TrimSpace(head)) > Closes(TrimSpace(head))
       => (EndsWith(ret, <<"fw_rparen">>) \/ EndsWith(ret, <<")">>))  \* ） )
    /\ Opens(name) = Closes(name) => Opens(ret) <= Closes(ret)

\* C18: when a name longer than 224 characters is cut and the text kept opens a
\* parenthesis it does not close, the result ends with 等） after a cut at '、' and
\* with a closing parenthesis after a hard cut; and the result of a balanced name
\* never has more opening than closing parentheses.
C18_TruncatedNameIsClosed ==
    (ShortenedName /\ Len(sanitize_text(major_value, PyNone).s) > 224) =>
        ClosedAfterCut(sanitize_text(major_value, PyNone).s,
                       Prefix(sanitize_text(major_value, PyNone).s, 224), major_ret.s)


\* C19: a call never sends more than two posts; and when the first post is answered
\* 403 with a token header, the call stores that token and posts exactly once more,
\* returning the retry's data when the retry succeeds and None when it fails.
C19_RetriesExactlyOnce ==
    nk_pc = "done" =>
        /\ nk_posts <= 2
        /\ (~nk_replies[1].raised /\ nk_replies[1].status = 403
            /\ nk_replies[1].token # "") =>
              /\ csrf_token = nk_replies[1].token
              /\ nk_posts = 2
              /\ nk_ret = IF /\ ~nk_replies[2].raised
                             /\ nk_replies[2].status = 200
                             /\ nk_replies[2].body = "state1"
                          THEN "data2" ELSE "None"


\* C20: no failure met while one province is handled leaves crawl_by_year: the loop
\* goes on to the provinces that remain, so crawl_by_year always ends by returning,
\* with no province of its list left unrequested.
C20_FailureStaysInItsProvince ==
    /\ bit_pc # "raised"
    /\ bit_pc # "loop" => bit_todo = <<>>

\* ------------------------------------------------------------------- C21
\* A crawl result that must end in a file: nothing raised, every item a dict, and
\* at least one record that validate_data accepts.
Survives(raw) ==
    /\ raw.raised = ""
    /\ \A i \in 1..Len(raw.list) : is_dict(raw.list[i])
    /\ \E i \in 1..Len(raw.list) : validate_data(raw.list[i])

\* C21: run_once never raises and never stops early: the schools visited so far and
\* the schools still to visit always make up the whole list in order, whatever an
\* earlier school's iteration came to (an exception, an unknown key, no data, an
\* empty cleaned set), and every school whose crawl gave a record that survives
\* cleaning has its file exported.
C21_EverySchoolIsVisited ==
    /\ run_pc # "raised"
    /\ run_pc = "done" => run_todo = <<>>
    /\ run_pc \in {"loop", "done"} =>
          LET list == schools_to_crawl(run_school)
          IN /\ Len(run_log) + Len(run_todo) = Len(list)
             /\ \A i \in 1..Len(run_log) :
                   /\ run_log[i].school = list[i]
                   /\ (run_log[i].school \in Supported /\ Survives(run_log[i].raw)) =>
                         /\ run_log[i].how = "exported"
                         /\ generate_filename(school_names[run_log[i].school], RunYear)
                               \in DOMAIN files
\* run_once has returned, and a school was exported after one school raised, one
\* gave no data and one gave nothing that survives cleaning.
C21_Witness ==
    /\ run_pc = "done"
    /\ \E f, n, e, x \in 1..Len(run_log) :
          /\ f < x /\ n < x /\ e < x
          /\ run_log[f].how = "failed" /\ run_log[n].how = "no_data"
          /\ run_log[e].how = "empty_clean" /\ run_log[x].how = "exported"
\* run_once has returned after skipping a key it does not know.
C21_UnknownKeySkipped ==
    run_pc = "done" /\ Len(run_log) = 1 /\ run_log[1].how = "unsupported"

\* ------------------------------------------------------------------- C22
\* The paragraph the loop visited last is a data paragraph (it has text and is no
\* batch title).
DataParagraph ==
    /\ para_i > 0
    /\ paragraphs[para_i].text # <<>>
    /\ ~para_last.title
\* What the single-item pattern finds in the paragraph visited last.
SingleItems == province_score_findall(sub_decimals(paragraphs[para_i].text), 1)

\* C22: for every data paragraph the single-item pattern contributes its records if
\* and only if the multi-item pattern yielded no item: never records of both
\* patterns, and when the multi-item pattern yielded nothing every match of the
\* single-item pattern is a record.
C22_PatternsAreExclusive ==
    DataParagraph =>
        /\ ~(para_last.format1 > 0 /\ para_last.format2 > 0)
        /\ para_last.format1 = 0 => para_last.format2 = Len(SingleItems)

\* ------------------------------------------------------------------- C23
\* The <p> element's bold text contains batch or score-line vocabulary: 批次 or
\* 分数线, and in TsinghuaCrawler also 统招批 or 定向批.
TitleParagraph(p) ==
    /\ p.text # <<>> /\ p.has_strong
    /\ \/ Contains(p.strong, <<"pi", "ci">>) \/ Contains(p.strong, <<"fen", "shu", "xian">>)  \* 批次 分数线
       \/ (para_school = "tsinghua"
           /\ (Contains(p.strong, <<"tong3", "zhao", "pi">>) \/ Contains(p.strong, <<"ding", "xiang4", "pi">>)))  \* 统招批 定向批
\* The batch in force after the first n paragraphs: the one set by the last title
\* paragraph among them, the adapter's default batch when there is none.
BatchAfter(n) ==
    LET titles == {j \in 1..n : TitleParagraph(paragraphs[j])}
    IN IF titles = {}
       THEN (IF para_school = "tsinghua" THEN <<"pu", "tong", "pi">> ELSE <<"ben", "ke", "yi", "pi">>)  \* 普通批 本科一批
       ELSE batch_title(para_school,
                        paragraphs[CHOOSE j \in titles : \A k \in titles : k <= j].strong)
               .current_batch

SectionHeader(row) == row.cells[1].colspan = "4"
\* The text in column k (2..4) of a data row, as HTML lays the row out: a row under
\* a row-span has no province cell, so its first cell is column 2.
ColumnText(row, k) ==
    LET n == IF row.covered THEN k - 1 ELSE k
    IN IF n <= Len(row.cells) THEN row.cells[n].text ELSE <<>>
\* The rows up to row i that have a non-blank province cell of their own.
ProvinceRows(i) ==
    {j \in 1..i : /\ ~SectionHeader(table_rows[j]) /\ ~table_rows[j].covered
                  /\ table_rows[j].cells[1].text # <<>>}
\* The most recent non-blank province cell at or before row i.
CarriedProvince(i) ==
    table_rows[CHOOSE j \in ProvinceRows(i) : \A k \in ProvinceRows(i) : k <= j].cells[1].text
\* The record the step added, if it added one.
Added == table_list'[Len(table_list')]

\* C24: every data row that carries a score produces a record whose 生源地 is the
\* normalized text of the most recent non-blank province cell at or before it; a
\* row under a row-span inherits that province, still produces its record, and
\* leaves the carried province as it was.
C24_ProvinceIsCarriedForward ==
    [][table_i' = table_i + 1 =>
          LET i == table_i'
              row == table_rows[i]
          IN /\ (/\ ~SectionHeader(row)
                 /\ table_clean_score(ColumnText(row, 4)) # <<>>
                 /\ ProvinceRows(i) # {}) =>
                    /\ Len(table_list') = Len(table_list) + 1
                    /\ Added["shengyuandi"] = PyStr(clean_province(CarriedProvince(i)))
             /\ row.covered => table_province' = table_province]_vars

\* C25: a section header row produces no record, sets the current batch from the
\* batch keyword it names and changes no other parser context; every other row
\* leaves the current batch alone, and a data row whose second column is no batch
\* label carries it.
C25_SectionHeaderSetsBatchOnly ==
    [][table_i' = table_i + 1 =>
          LET row == table_rows[table_i']
          IN IF SectionHeader(row)
             THEN /\ table_list' = table_list
                  /\ table_batch' = title_row_batch(row.cells[1].text)
                  /\ table_province' = table_province
             ELSE /\ table_batch' = table_batch
                  /\ (/\ Len(table_list') > Len(table_list)
                      /\ ~any_keyword(ColumnText(row, 2))) =>
                         Added["pici"] = PyStr(table_batch)]_vars

\* C26: the record of a data row gets, when the row's second column matches a batch
\* keyword, the batch of that label and 专业 NA, and otherwise that column's text as
\* 专业 and the current batch as 批次, with or without a row-span on the province
\* cell; 专业 is never the text of the province cell.
C26_SecondColumnIsBatchOrMajor ==
    [][(table_i' = table_i + 1 /\ Len(table_list') > Len(table_list)) =>
          LET row == table_rows[table_i']
              column == ColumnText(row, 2)
          IN /\ Added["zhuanye"] = PyStr(classify_column(column, table_batch).major)
             /\ Added["pici"] = PyStr(classify_column(column, table_batch).batch)
             /\ ~row.covered => Added["zhuanye"] # PyStr(row.cells[1].text)]_vars

\* ------------------------------------------------------------------- C27
\* C27: parse_score_page tries its strategies in the order table, paragraph,
\* raw-text scan, goes on to the next one when a strategy's structure is absent or
\* it yields no record, and returns an empty result only after the raw-text scan
\* has been tried too.
C27_FallsBackInOrder ==
    (page_pc = "done" /\ ~page.raises) =>
        /\ page_tried = SubSeq(<<"table", "paragraph", "text">>, 1, Len(page_tried))
        /\ page_ret.records = 0 => page_tried = <<"table", "paragraph", "text">>

\* The category the documented rules give a text: the first rule, in the
\* documented order, one of whose keywords the text contains; NA when none does.
DocumentedCategory(text) ==
    LET has(w) == Contains(text, w)
    IN IF has(<<"wu", "li">>) \/ has(<<"wu", "hua2">>) THEN <<"zong", "he2", "gai", "ge">>  \* 物理 物化 综合改革
       ELSE IF has(<<"li4", "shi3">>) THEN <<"zong", "he2", "gai", "ge">>  \* 历史 综合改革
       ELSE IF has(<<"li", "ke">>) \/ has(<<"li", "gong">>) THEN <<"li", "gong">>  \* 理科 理工 理工
       ELSE IF has(<<"wen", "ke">>) \/ has(<<"wen", "shi3">>) THEN <<"wen", "shi3">>  \* 文科 文史 文史
       ELSE IF has(<<"she", "ji2", "xue">>) \/ has(<<"yin", "yue", "biao", "yan">>) \/ has(<<"bo", "yin", "yu", "zhu", "chi">>) \/ has(<<"wu3", "dao", "biao", "yan">>)  \* 设计学 音乐表演 播音与主持 舞蹈表演
               \/ has(<<"yi4", "shu4">>)  \* 艺术
         THEN <<"yi4", "shu4", "lei">>  \* 艺术类
       ELSE S_NA

\* C28: the category an adapter infers from a text is NA when the text contains
\* none of the listed keywords and otherwise the category of the first matching
\* rule in the documented order (physics, history, science, humanities, arts),
\* and every adapter gives the same text the same category.
C28_CategoryFollowsDocumentedRules ==
    /\ \A a \in cat_called : cat_ret[a] = DocumentedCategory(cat_text)
    /\ \A a, b \in cat_called : cat_ret[a] = cat_ret[b]

\* C29: within one crawl_by_year, any two consecutive requests to the host are
\* separated by the inter-request delay, whether or not the earlier request
\* succeeded or returned data.
C29_RequestsAreSeparatedByDelay ==
    \A i \in 1..(Len(delay_log) - 1) :
        ~(delay_log[i] = "post" /\ delay_log[i + 1] = "post")

\* C30: a row whose rank is missing but whose code, year and score are valid does
\* not abort its file: when such a row is among those that passed the code, year
\* and score filters, every row left by deduplication is inserted and the total
\* grows by their number.
C30_MissingRankDoesNotAbortFile ==
    [][(/\ loader_todo' # loader_todo
        /\ \E i \in 1..Len(loader_last'.passed) : isna(loader_last'.passed[i].MIN_RANK)) =>
            /\ loader_last'.outcome = "imported"
            /\ loader_last'.rows = drop_duplicates(loader_last'.passed)
            /\ score_table' = score_table \o drop_duplicates(loader_last'.passed)
            /\ loader_total' = loader_total + Len(drop_duplicates(loader_last'.passed))]_vars

====
